---- MODULE Spec2Model ----
(***************************************************************************)
(* Model of ReuralNetwork: the matrix library (src/src/matrix), the layers *)
(* (src/src/layer.rs), the network (src/src/neural_network.rs) and its     *)
(* builder (src/src/neural_network_builder.rs).                            *)
(*                                                                         *)
(* Spec: a caller holds one matrix `m`, the receiver of the method calls.  *)
(* Each action is one call: `call` records it with its arguments and `res` *)
(* its outcome (Ok, Err or a panic); the caller then goes on (Continue)    *)
(* and makes the next call.  usize is modelled with UsizeBits bits and the *)
(* element type T is instantiated with i8.  Arithmetic that overflows      *)
(* panics in a build with overflow checks and wraps in one without: every  *)
(* operator takes the flag `oc` and every call is made for both builds.    *)
(*                                                                         *)
(* HeapSpec: the same operations, the data of every matrix being a buffer  *)
(* at an address, to see which matrices share a buffer.                    *)
(*                                                                         *)
(* NetSpec: a caller builds layers, lets them predict, makes a network of  *)
(* them and lets the network predict.                                      *)
(*                                                                         *)
(* BuilderSpec: a caller holds a NeuralNetworkBuilder, adds hidden layers, *)
(* lets it build networks and lets these predict.                          *)
(*                                                                         *)
(* MapSpec: a call of map or map_ref_mut, one iteration of its loops per   *)
(* step, with the calls of the closure made so far.                        *)
(***************************************************************************)
EXTENDS Integers, Sequences, FiniteSets, TLC

(* ------------------------------ bounds -------------------------------- *)

\* Width of usize in the model.
UsizeBits == 4
\* Largest small dimension handed to the library (next to usize::MAX).
MaxDim == 3
\* Longest slice handed to from_slice.
MaxLen == 10
\* Number of times a matrix may be mutated in place after its construction.
MaxChain == 1
\* Number of in-place calls made on one matrix that an operator returned.
MaxMutations == 1
\* Number of layers a caller puts into one vector of layers.
MaxLayers == 3
\* Number of hidden layers a caller adds to one builder.
MaxHidden == 2

(* ------------------------------ machine ------------------------------- *)

\* ::std::usize::MAX
UsizeMax == 2^UsizeBits - 1

\* Width of the element type T (a signed integer).
ElemBits == 8
ElemMin == 0 - 2^(ElemBits - 1)
ElemMax == 2^(ElemBits - 1) - 1

\* The NonZeroUsize values used as rows / columns arguments.
Dims == (1..MaxDim) \cup {UsizeMax}

(* ------------------------------ values -------------------------------- *)

\* struct Matrix<T> { rows, columns, data }
Matrix(rows, columns, data) == [rows |-> rows, columns |-> columns, data |-> data]

\* The absence of a matrix (nothing constructed yet, or the value was moved).
NoMatrix == Matrix(0, 0, <<>>)

\* Result<T>: Ok(value) or Err(error); a panic is a third outcome of a call.
\* A panic carries its cause in err; text is what a formatter has written.
NoResult   == [tag |-> "None", err |-> "", val |-> NoMatrix, elem |-> 0, text |-> ""]
Ok(v)      == [NoResult EXCEPT !.tag = "Ok", !.val = v]
OkElem(e)  == [NoResult EXCEPT !.tag = "Ok", !.elem = e]
OkUnit     == [NoResult EXCEPT !.tag = "Ok"]
OkText(t)  == [NoResult EXCEPT !.tag = "Ok", !.text = t]
Err(e)     == [NoResult EXCEPT !.tag = "Err", !.err = e]
Panic(why) == [NoResult EXCEPT !.tag = "Panic", !.err = why]

\* Outcome of a computation on one usize or one element: a value, or a panic
\* with its cause: "usize" (an overflow of usize arithmetic), "index" (an index
\* outside of a vector) or "element" (an operator of T). checked_mul has the
\* outcome None in place of a panic.
V(x)       == [ok |-> TRUE, v |-> x, why |-> ""]
Abort(why) == [ok |-> FALSE, v |-> 0, why |-> why]

(* ------------------------- machine arithmetic -------------------------- *)

\* usize multiplication / addition `a * b`, `a + b`: with overflow checks (debug
\* builds) an overflow panics, without them (release builds) it wraps.
usize_mul(a, b, oc) ==
    IF a * b <= UsizeMax THEN V(a * b)
    ELSE IF oc THEN Abort("usize") ELSE V((a * b) % (UsizeMax + 1))

usize_add(a, b, oc) ==
    IF a + b <= UsizeMax THEN V(a + b)
    ELSE IF oc THEN Abort("usize") ELSE V((a + b) % (UsizeMax + 1))

\* usize::checked_mul
checked_mul(a, b) == IF a * b <= UsizeMax THEN V(a * b) ELSE Abort("None")

\* Two's complement wrap of an integer into the range of T.
WrapElem(x) ==
    LET u == x % (2^ElemBits)
    IN  IF u > ElemMax THEN u - 2^ElemBits ELSE u

\* The result of an arithmetic operation of T whose exact value is x.
ElemResult(x, oc) ==
    IF x >= ElemMin /\ x <= ElemMax THEN V(x)
    ELSE IF oc THEN Abort("element") ELSE V(WrapElem(x))

(* ------------------------------ Matrix -------------------------------- *)

\* Matrix::as_slice
as_slice(self) == self.data

\* Matrix::get_rows, Matrix::get_columns
get_rows(self) == self.rows
get_columns(self) == self.columns

\* Mutant: the index is one too large.
get_index_unchecked_one_past(self, row, column, oc) ==
    LET p == usize_mul(self.columns, row, oc)
    IN  IF ~p.ok THEN p
        ELSE LET q == usize_add(p.v, column, oc)
             IN  IF ~q.ok THEN q ELSE usize_add(q.v, 1, oc)

\* Mutant: the index is computed from the number of rows.
get_index_unchecked_by_rows(self, row, column, oc) ==
    LET p == usize_mul(self.rows, row, oc)
    IN  IF ~p.ok THEN p ELSE usize_add(p.v, column, oc)

\* Matrix::get_index_unchecked: columns * row + column
get_index_unchecked(self, row, column, oc) ==
    LET p == usize_mul(self.columns, row, oc)
    IN  IF ~p.ok THEN p ELSE usize_add(p.v, column, oc)

\* Mutant: the length is computed with a wrapping multiplication.
get_length_wrapping(rows, columns) ==
    OkElem((rows * columns) % (UsizeMax + 1))

\* Matrix::get_length_from_rows_and_columns
get_length_from_rows_and_columns(rows, columns) ==
    LET l == checked_mul(rows, columns)
    IN  IF l.ok THEN OkElem(l.v) ELSE Err("DimensionsTooLarge")

\* Matrix::get_length_from_rows_and_columns_unchecked
get_length_from_rows_and_columns_unchecked(rows, columns, oc) ==
    usize_mul(rows, columns, oc)

\* Indexing of the data vector, `self.data[index]`: panics out of bounds.
data_at(data, index) ==
    IF index < Len(data) THEN V(data[index + 1]) ELSE Abort("index")

\* Matrix::get_unchecked
get_unchecked(self, row, column, oc) ==
    LET index == get_index_unchecked(self, row, column, oc)
    IN  IF ~index.ok THEN index ELSE data_at(self.data, index.v)

\* Mutant: the bounds are compared with > instead of >=.
get_off_by_one(self, row, column, oc) ==
    IF row > get_rows(self) \/ column > get_columns(self)
    THEN Err("CellOutOfBounds")
    ELSE LET e == get_unchecked(self, row, column, oc)
         IN  IF e.ok THEN OkElem(e.v) ELSE Panic(e.why)

\* Matrix::get
get(self, row, column, oc) ==
    IF row >= get_rows(self) \/ column >= get_columns(self)
    THEN Err("CellOutOfBounds")
    ELSE LET e == get_unchecked(self, row, column, oc)
         IN  IF e.ok THEN OkElem(e.v) ELSE Panic(e.why)

\* Matrix::new
new(rows, columns, default) ==
    LET length == get_length_from_rows_and_columns(rows, columns)
    IN  IF length.tag = "Err" THEN length
        ELSE Ok(Matrix(rows, columns, [i \in 1..length.elem |-> default]))

\* Mutant: the length of the slice is not compared with the dimensions.
from_slice_unchecked_length(rows, columns, data) ==
    LET length == get_length_from_rows_and_columns(rows, columns)
    IN  IF length.tag = "Err" THEN length
        ELSE Ok(Matrix(rows, columns, data))

\* Mutant: rows and columns are stored the wrong way round.
from_slice_swapped(rows, columns, data) ==
    LET length == get_length_from_rows_and_columns(rows, columns)
    IN  IF length.tag = "Err" THEN length
        ELSE IF length.elem # Len(data) THEN Err("DimensionMismatch")
        ELSE Ok(Matrix(columns, rows, data))

\* Mutant: only a slice that is too short is rejected.
from_slice_too_short_only(rows, columns, data) ==
    LET length == get_length_from_rows_and_columns(rows, columns)
    IN  IF length.tag = "Err" THEN length
        ELSE IF length.elem > Len(data) THEN Err("DimensionMismatch")
        ELSE Ok(Matrix(rows, columns, data))

\* Matrix::from_slice
from_slice(rows, columns, data) ==
    LET length == get_length_from_rows_and_columns(rows, columns)
    IN  IF length.tag = "Err" THEN length
        ELSE IF length.elem # Len(data) THEN Err("DimensionMismatch")
        ELSE Ok(Matrix(rows, columns, data))

\* rng.sample(Uniform::new_inclusive(0.0, 1.0)) for the i-th element drawn from a
\* generator in state seed: one of the two ends of the interval.
sample(seed, i) == (seed + i) % 2

\* Matrix::from_random
from_random(rows, columns, seed) ==
    LET length == get_length_from_rows_and_columns(rows, columns)
    IN  IF length.tag = "Err" THEN length
        ELSE Ok(Matrix(rows, columns, [i \in 1..length.elem |-> sample(seed, i)]))


(* ------------------------ operators of the type T ---------------------- *)

\* Unsigned (two's complement) representation of an element and back.
ToUnsigned(x) == x % (2^ElemBits)
ToSigned(u) == IF u > ElemMax THEN u - 2^ElemBits ELSE u

\* One bit of a bitwise operator.
bit_op(op, a, b) ==
    CASE op = "&" -> IF a = 1 /\ b = 1 THEN 1 ELSE 0
      [] op = "|" -> IF a = 1 \/ b = 1 THEN 1 ELSE 0
      [] op = "^" -> IF a # b THEN 1 ELSE 0

RECURSIVE bits_op(_, _, _, _)
bits_op(op, a, b, n) ==
    IF n = 0 THEN 0
    ELSE bit_op(op, a % 2, b % 2) + 2 * bits_op(op, a \div 2, b \div 2, n - 1)

abs(x) == IF x < 0 THEN 0 - x ELSE x

\* Division of T truncates towards zero.
trunc_div(x, y) ==
    IF (x < 0) = (y < 0) THEN abs(x) \div abs(y) ELSE 0 - (abs(x) \div abs(y))

\* The binary operators of std::ops that the matrix operators are generated for.
BinaryOperators == {"+", "-", "*", "/", "%", "&", "|", "^", "<<", ">>"}

\* `x op y` for elements x, y of T.
binary_op(op, x, y, oc) ==
    CASE op = "+" -> ElemResult(x + y, oc)
      [] op = "-" -> ElemResult(x - y, oc)
      [] op = "*" -> ElemResult(x * y, oc)
      [] op = "/" -> IF y = 0 \/ (x = ElemMin /\ y = 0 - 1) THEN Abort("element")
                     ELSE V(trunc_div(x, y))
      [] op = "%" -> IF y = 0 \/ (x = ElemMin /\ y = 0 - 1) THEN Abort("element")
                     ELSE V(x - y * trunc_div(x, y))
      [] op \in {"&", "|", "^"} ->
            V(ToSigned(bits_op(op, ToUnsigned(x), ToUnsigned(y), ElemBits)))
      [] op = "<<" -> IF y < 0 \/ y >= ElemBits
                      THEN IF oc THEN Abort("element")
                           ELSE V(WrapElem(x * 2^(ToUnsigned(y) % ElemBits)))
                      ELSE V(WrapElem(x * 2^y))
      [] op = ">>" -> IF y < 0 \/ y >= ElemBits
                      THEN IF oc THEN Abort("element")
                           ELSE V(x \div 2^(ToUnsigned(y) % ElemBits))
                      ELSE V(x \div 2^y)

\* `*x op= y` for elements x, y of T: the value of x afterwards.
assign_op(op, x, y, oc) == binary_op(op, x, y, oc)

\* The unary operators of std::ops that the matrix operators are generated for.
UnaryOperators == {"-", "!"}

\* `op x` for an element x of T.
unary_op(op, x, oc) ==
    CASE op = "-" -> ElemResult(0 - x, oc)
      [] op = "!" -> V(0 - x - 1)

(* ------------------------------ closures ------------------------------ *)

\* The closures handed to map and map_ref_mut: the ones the operator macros
\* build and two closures of a caller.
ScalarClosure(op, other)      == [kind |-> "scalar", op |-> op, scalar |-> other, other |-> NoMatrix]
ElementWiseClosure(op, other) == [kind |-> "element_wise", op |-> op, scalar |-> 0, other |-> other]
ScalarAssignClosure(op, other) == [kind |-> "scalar_assign", op |-> op, scalar |-> other, other |-> NoMatrix]
UnaryClosure(op)              == [kind |-> "unary", op |-> op, scalar |-> 0, other |-> NoMatrix]
UserClosure(name)             == [kind |-> "user", op |-> name, scalar |-> 0, other |-> NoMatrix]

ActivationClosure             == [kind |-> "activation", op |-> "", scalar |-> 0, other |-> NoMatrix]

\* 1.0 / (1.0 + (-element).exp()) on the f64 values that are integers, rounded
\* to the nearest integer: the logistic function is below 1/2 for negative
\* elements, 1/2 at 0 and above 1/2 for positive ones.
sigmoid(element) == IF element > 0 THEN 1 ELSE 0

\* The closures of a caller: |v, _, _| v + 1 and |_, row, column| row - column.
UserMappings == {"succ", "coord"}

\* Mutant: the element of other is the left operand of the element-wise operator.
apply_mapping_other_on_the_left(mapping, element, row, column, oc) ==
    CASE mapping.kind = "scalar" -> binary_op(mapping.op, element, mapping.scalar, oc)
      [] mapping.kind = "scalar_assign" ->
            assign_op(mapping.op, element, mapping.scalar, oc)
      [] mapping.kind = "element_wise" ->
            LET o == get_unchecked(mapping.other, row, column, oc)
            IN  IF ~o.ok THEN o ELSE binary_op(mapping.op, o.v, element, oc)
      [] mapping.kind = "unary" -> unary_op(mapping.op, element, oc)
      [] mapping.kind = "activation" -> V(sigmoid(element))
      [] mapping.kind = "user" ->
            IF mapping.op = "succ" THEN ElemResult(element + 1, oc)
            ELSE ElemResult(row - column, oc)

\* Mutant: the scalar is the left operand of the scalar operator.
apply_mapping_scalar_on_the_left(mapping, element, row, column, oc) ==
    CASE mapping.kind = "scalar" -> binary_op(mapping.op, mapping.scalar, element, oc)
      [] mapping.kind = "scalar_assign" ->
            assign_op(mapping.op, element, mapping.scalar, oc)
      [] mapping.kind = "element_wise" ->
            LET o == get_unchecked(mapping.other, row, column, oc)
            IN  IF ~o.ok THEN o ELSE binary_op(mapping.op, element, o.v, oc)
      [] mapping.kind = "unary" -> unary_op(mapping.op, element, oc)
      [] mapping.kind = "activation" -> V(sigmoid(element))
      [] mapping.kind = "user" ->
            IF mapping.op = "succ" THEN ElemResult(element + 1, oc)
            ELSE ElemResult(row - column, oc)

\* mapping(element, row, column)
apply_mapping(mapping, element, row, column, oc) ==
    CASE mapping.kind = "scalar" -> binary_op(mapping.op, element, mapping.scalar, oc)
      [] mapping.kind = "scalar_assign" ->
            assign_op(mapping.op, element, mapping.scalar, oc)
      [] mapping.kind = "element_wise" ->
            LET o == get_unchecked(mapping.other, row, column, oc)
            IN  IF ~o.ok THEN o ELSE binary_op(mapping.op, element, o.v, oc)
      [] mapping.kind = "unary" -> unary_op(mapping.op, element, oc)
      [] mapping.kind = "activation" -> V(sigmoid(element))
      [] mapping.kind = "user" ->
            IF mapping.op = "succ" THEN ElemResult(element + 1, oc)
            ELSE ElemResult(row - column, oc)

\* Matrix::map: the body of the loops in iteration k, on the data vector as
\* the earlier iterations left it: the data vector after it, or a panic.
map_body(self, data, mapping, k, oc) ==
    LET row    == k \div get_columns(self)
        column == k % get_columns(self)
        index  == get_index_unchecked(self, row, column, oc)
        old    == IF index.ok THEN data_at(data, index.v) ELSE index
    IN  IF ~old.ok THEN old
        ELSE LET e == apply_mapping(mapping, old.v, row, column, oc)
             IN  IF ~e.ok THEN e
                 ELSE V([data EXCEPT ![index.v + 1] = e.v])

\* Matrix::map: the loops over row and column, from iteration k on.
\* (d ranges over a set of one element: an iteration is evaluated once.)
RECURSIVE map_loop(_, _, _, _, _)
map_loop(self, data, mapping, k, oc) ==
    IF k >= get_rows(self) * get_columns(self) THEN V(data)
    ELSE CHOOSE r \in
            {IF ~d.ok THEN d ELSE map_loop(self, d.v, mapping, k + 1, oc) :
                d \in {map_body(self, data, mapping, k, oc)}} : TRUE

\* Matrix::map: the matrix after the call, or a panic.
map(self, mapping, oc) ==
    LET d == map_loop(self, self.data, mapping, 0, oc)
    IN  IF d.ok THEN Ok(Matrix(self.rows, self.columns, d.v)) ELSE Panic(d.why)

\* Matrix::map_ref_mut: the same loops, the closure mutating the element in place.
map_ref_mut(self, mapping, oc) ==
    LET d == map_loop(self, self.data, mapping, 0, oc)
    IN  IF d.ok THEN Ok(Matrix(self.rows, self.columns, d.v)) ELSE Panic(d.why)

\* Mutant: the element is read without switching row and column.
RECURSIVE transpose_loop_not_switched(_, _, _, _, _, _)
transpose_loop_not_switched(self, columns, data, index, length, oc) ==
    IF index >= length THEN V(data)
    ELSE LET row    == index \div columns
             column == index % columns
             value  == get_unchecked(self, row, column, oc)
         IN  IF ~value.ok THEN value
             ELSE transpose_loop_not_switched(self, columns, Append(data, value.v),
                                              index + 1, length, oc)

\* Matrix::transpose: the loop over index, data being the vector pushed so far.
RECURSIVE transpose_loop(_, _, _, _, _, _)
transpose_loop(self, columns, data, index, length, oc) ==
    IF index >= length THEN V(data)
    ELSE LET row    == index \div columns
             column == index % columns
             value  == get_unchecked(self, column, row, oc)
         IN  IF ~value.ok THEN value
             ELSE transpose_loop(self, columns, Append(data, value.v),
                                 index + 1, length, oc)

\* Mutant: the transposed matrix keeps the dimensions of the original.
transpose_same_dimensions(self, oc) ==
    LET rows    == self.columns
        columns == self.rows
        length  == get_length_from_rows_and_columns_unchecked(rows, columns, oc)
    IN  IF ~length.ok THEN Panic(length.why)
        ELSE LET d == transpose_loop(self, columns, <<>>, 0, length.v, oc)
             IN  IF d.ok THEN Ok(Matrix(self.rows, self.columns, d.v)) ELSE Panic(d.why)

\* Matrix::transpose
transpose(self, oc) ==
    LET rows    == self.columns
        columns == self.rows
        length  == get_length_from_rows_and_columns_unchecked(rows, columns, oc)
    IN  IF ~length.ok THEN Panic(length.why)
        ELSE LET d == transpose_loop(self, columns, <<>>, 0, length.v, oc)
             IN  IF d.ok THEN Ok(Matrix(rows, columns, d.v)) ELSE Panic(d.why)

\* Matrix::matrix_mul: the sum of products of one element, from product i on.
RECURSIVE mul_element(_, _, _, _, _, _, _)
mul_element(self, other, row, column, element, i, oc) ==
    IF i >= get_columns(self) THEN V(element)
    ELSE LET a == get_unchecked(self, row, i, oc)
             b == get_unchecked(other, i, column, oc)
         IN  IF ~a.ok THEN a ELSE IF ~b.ok THEN b
             ELSE LET product == binary_op("*", a.v, b.v, oc)
                  IN  IF ~product.ok THEN product
                      ELSE LET sum == binary_op("+", element, product.v, oc)
                           IN  IF ~sum.ok THEN sum
                               ELSE mul_element(self, other, row, column, sum.v, i + 1, oc)

\* Mutant: the loop over the products starts at 0 instead of 1.
mul_first_counted_twice(self, other, row, column, oc) ==
    LET a == get_unchecked(self, row, 0, oc)
        b == get_unchecked(other, 0, column, oc)
    IN  IF ~a.ok THEN a ELSE IF ~b.ok THEN b
        ELSE LET first == binary_op("*", a.v, b.v, oc)
             IN  IF ~first.ok THEN first
                 ELSE mul_element(self, other, row, column, first.v, 0, oc)

\* Matrix::matrix_mul: the element of the result in the given row and column.
mul_first(self, other, row, column, oc) ==
    LET a == get_unchecked(self, row, 0, oc)
        b == get_unchecked(other, 0, column, oc)
    IN  IF ~a.ok THEN a ELSE IF ~b.ok THEN b
        ELSE LET first == binary_op("*", a.v, b.v, oc)
             IN  IF ~first.ok THEN first
                 ELSE mul_element(self, other, row, column, first.v, 1, oc)

\* Matrix::matrix_mul: the loops over row and column, from iteration k on.
RECURSIVE mul_loop(_, _, _, _, _, _, _)
mul_loop(self, other, rows, columns, data, k, oc) ==
    IF k >= rows * columns THEN V(data)
    ELSE LET e == mul_first(self, other, k \div columns, k % columns, oc)
         IN  IF ~e.ok THEN e
             ELSE mul_loop(self, other, rows, columns, Append(data, e.v), k + 1, oc)

\* Mutant: the columns of both operands are compared.
matrix_mul_compares_columns(self, other, oc) ==
    IF get_columns(self) # get_columns(other) THEN Err("DimensionMismatch")
    ELSE LET rows    == self.rows
             columns == other.columns
             size    == get_length_from_rows_and_columns(rows, columns)
         IN  IF size.tag = "Err" THEN size
             ELSE LET d == mul_loop(self, other, rows, columns, <<>>, 0, oc)
                  IN  IF d.ok THEN Ok(Matrix(rows, columns, d.v)) ELSE Panic(d.why)

\* Mutant: the size of the result is computed without the overflow check.
matrix_mul_unchecked_size(self, other, oc) ==
    IF get_columns(self) # get_rows(other) THEN Err("DimensionMismatch")
    ELSE LET rows    == self.rows
             columns == other.columns
             d       == mul_loop(self, other, rows, columns, <<>>, 0, oc)
         IN  IF d.ok THEN Ok(Matrix(rows, columns, d.v)) ELSE Panic(d.why)

\* Mutant: the size of the result is checked before the inner dimensions.
matrix_mul_size_first(self, other, oc) ==
    LET rows    == self.rows
        columns == other.columns
        size    == get_length_from_rows_and_columns(rows, columns)
    IN  IF size.tag = "Err" THEN size
        ELSE IF get_columns(self) # get_rows(other) THEN Err("DimensionMismatch")
        ELSE LET d == mul_loop(self, other, rows, columns, <<>>, 0, oc)
             IN  IF d.ok THEN Ok(Matrix(rows, columns, d.v)) ELSE Panic(d.why)

\* Matrix::matrix_mul
matrix_mul(self, other, oc) ==
    IF get_columns(self) # get_rows(other) THEN Err("DimensionMismatch")
    ELSE LET rows    == self.rows
             columns == other.columns
             size    == get_length_from_rows_and_columns(rows, columns)
         IN  IF size.tag = "Err" THEN size
             ELSE LET d == mul_loop(self, other, rows, columns, <<>>, 0, oc)
                  IN  IF d.ok THEN Ok(Matrix(rows, columns, d.v)) ELSE Panic(d.why)

\* impl_scalar_binary_operator: `matrix op scalar`
scalar_binary_operator(self, op, other, oc) ==
    map(Matrix(self.rows, self.columns, self.data), ScalarClosure(op, other), oc)

\* Mutant: the elements of a copy are changed, the matrix itself is not.
scalar_assign_operator_on_a_copy(self, op, other, oc) ==
    LET r == map_ref_mut(self, ScalarAssignClosure(op, other), oc)
    IN  IF r.tag = "Ok" THEN Ok(self) ELSE r

\* impl_scalar_assign_operator: `matrix op= scalar`
scalar_assign_operator(self, op, other, oc) ==
    map_ref_mut(self, ScalarAssignClosure(op, other), oc)

\* impl_unary_operator: `op matrix`
unary_operator(self, op, oc) ==
    map(Matrix(self.rows, self.columns, self.data), UnaryClosure(op), oc)

\* Mutant: only the numbers of elements of the operands are compared.
element_wise_compares_lengths(self, op, other, oc) ==
    IF Len(self.data) # Len(other.data)
    THEN Err("DimensionMismatch")
    ELSE map(Matrix(self.rows, self.columns, self.data), ElementWiseClosure(op, other), oc)

\* Mutant: the result starts as a copy of other instead of self.
element_wise_clones_other(self, op, other, oc) ==
    IF get_rows(self) # get_rows(other) \/ get_columns(self) # get_columns(other)
    THEN Err("DimensionMismatch")
    ELSE map(Matrix(self.rows, self.columns, other.data), ElementWiseClosure(op, other), oc)

\* impl_element_wise_binary_operator: `matrix op other`
element_wise_binary_operator(self, op, other, oc) ==
    IF get_rows(self) # get_rows(other) \/ get_columns(self) # get_columns(other)
    THEN Err("DimensionMismatch")
    ELSE map(Matrix(self.rows, self.columns, self.data), ElementWiseClosure(op, other), oc)

\* ::std::cmp::max
max(a, b) == IF a >= b THEN a ELSE b

\* format!("{}", value) for an element of T
format(value) == ToString(value)

\* format!("{:<width$}", value): left-aligned, filled with spaces up to width.
RECURSIVE format_left_aligned(_, _)
format_left_aligned(value, width) ==
    IF Len(value) >= width THEN value
    ELSE format_left_aligned(value \o " ", width)

\* [String]::join
RECURSIVE join(_, _)
join(strings, separator) ==
    IF strings = <<>> THEN ""
    ELSE IF Len(strings) = 1 THEN strings[1]
    ELSE strings[1] \o separator \o join(Tail(strings), separator)

\* Display::fmt: the loop over the rows of one column, from the given row on.
RECURSIVE max_width_loop(_, _, _, _, _)
max_width_loop(self, column, row, max_width, oc) ==
    IF row >= get_rows(self) THEN V(max_width)
    ELSE LET index == get_index_unchecked(self, row, column, oc)
             value == IF index.ok THEN data_at(self.data, index.v) ELSE index
         IN  IF ~value.ok THEN value
             ELSE max_width_loop(self, column, row + 1,
                                 max(max_width, Len(format(value.v))), oc)

\* Display::fmt: the loop over the columns, collecting their widths.
RECURSIVE column_widths_loop(_, _, _, _)
column_widths_loop(self, column_widths, column, oc) ==
    IF column >= get_columns(self) THEN V(column_widths)
    ELSE LET max_width == max_width_loop(self, column, 0, 0, oc)
         IN  IF ~max_width.ok THEN max_width
             ELSE column_widths_loop(self, Append(column_widths, max_width.v),
                                     column + 1, oc)

\* Display::fmt: the loop over column_widths.iter().enumerate() of one row.
RECURSIVE row_values_loop(_, _, _, _, _, _)
row_values_loop(self, column_widths, row, row_values, column, oc) ==
    IF column >= Len(column_widths) THEN V(row_values)
    ELSE LET width == column_widths[column + 1]
             index == get_index_unchecked(self, row, column, oc)
             value == IF index.ok THEN data_at(self.data, index.v) ELSE index
         IN  IF ~value.ok THEN value
             ELSE row_values_loop(self, column_widths, row,
                                  Append(row_values,
                                         format_left_aligned(format(value.v), width)),
                                  column + 1, oc)

\* Display::fmt: the loop over the rows, formatting each of them.
RECURSIVE rows_loop(_, _, _, _, _)
rows_loop(self, column_widths, rows, row, oc) ==
    IF row >= get_rows(self) THEN V(rows)
    ELSE LET row_values == row_values_loop(self, column_widths, row, <<>>, 0, oc)
         IN  IF ~row_values.ok THEN row_values
             ELSE rows_loop(self, column_widths,
                            Append(rows, "[" \o join(row_values.v, "   ") \o "]"),
                            row + 1, oc)

\* impl Display for Matrix: fmt
fmt(self, oc) ==
    LET column_widths == column_widths_loop(self, <<>>, 0, oc)
    IN  IF ~column_widths.ok THEN Panic(column_widths.why)
        ELSE LET rows == rows_loop(self, column_widths.v, <<>>, 0, oc)
             IN  IF rows.ok THEN OkText(join(rows.v, "\n")) ELSE Panic(rows.why)


(* ------------------------------- inputs ------------------------------- *)

\* The slice start, start + 1, ..., of the given length.
Ramp(start, len) == [i \in 1..len |-> start + i - 1]

\* The operands of the test matrix_mul_correct_dimensions.
ExampleA == <<3, 4, 2>>
ExampleB == <<13, 9, 7, 15, 8, 7, 4, 6, 6, 4, 0, 3>>

\* The data slices handed to from_slice.
Slices == {Ramp(s, n) : s \in {0, 1}, n \in 0..MaxLen} \cup {ExampleA}

\* The element values handed to new, and the scalars of the scalar operators.
Defaults == {0, 2}
Scalars == {0, 2}

\* The states of the random number generator.
Seeds == {0, 1}

\* The second operands of the operators that take another matrix.
Others ==
    {Matrix(r, c, Ramp(1, r * c)) : r \in 1..MaxDim, c \in 1..MaxDim}
    \cup {Matrix(3, 4, ExampleB)}

\* Owned (`*`) or referenced (`&`) access to an operand.
Access == {"*", "&"}

(* ------------------------------- state -------------------------------- *)

VARIABLES
    m,      \* the matrix the caller holds, NoMatrix if it holds none
    res,    \* the outcome of the last call
    call,   \* the last call and its arguments
    chain,  \* how often m was mutated in place since its construction
    heap,      \* the buffers of the vectors allocated, by address
    operand,   \* a matrix whose data is the address of its buffer
    argument,  \* the matrix handed to an operator as `other`, likewise
    result,    \* the matrix an operator returned, likewise
    original,  \* the contents operand and argument were constructed with
    layers,    \* the Vec<Layer> the caller is filling
    network,   \* the NeuralNetwork the caller holds, NoNetwork if it holds none
    builder,   \* the NeuralNetworkBuilder the caller holds, NoBuilder if none
    frame      \* the call of map or map_ref_mut in progress, NoFrame if none

\* The variables of a caller that looks at where the data of its matrices lives.
heap_vars == <<heap, operand, argument, result, original>>

\* The variables of a caller that builds layers and a network.
net_vars == <<layers, network, builder>>

\* The variables of a call of map or map_ref_mut seen iteration by iteration.
map_vars == <<frame>>

vars == <<m, res, call, chain, heap_vars, net_vars, map_vars>>

\* An Option: the caller holds a network or none.
Some(x) == <<x>>
NoNetwork == <<>>
NoBuilder == <<>>
NoFrame == <<>>

NoCall ==
    [op |-> "none", self |-> NoMatrix, other |-> NoMatrix, rows |-> 0, columns |-> 0,
     row |-> 0, column |-> 0, data |-> <<>>, value |-> 0, operator |-> "",
     lhs |-> "", rhs |-> "", input_nodes |-> 0, output_nodes |-> 0,
     input |-> NoMatrix, layers |-> <<>>, passed |-> <<>>, builder |-> <<>>,
     nodes |-> 0]

Init ==
    /\ m = NoMatrix
    /\ res = NoResult
    /\ call = NoCall
    /\ chain = 0
    /\ heap = <<>>
    /\ operand = NoMatrix
    /\ argument = NoMatrix
    /\ result = NoMatrix
    /\ original = [operand |-> NoMatrix, argument |-> NoMatrix]
    /\ layers = <<>>
    /\ network = NoNetwork
    /\ builder = NoBuilder
    /\ frame = NoFrame

\* The caller is between two calls.
Idle == call = NoCall

\* The caller binds the matrix a constructor returned.
Bound(r) == IF r.tag = "Ok" THEN r.val ELSE NoMatrix

\* The receiver after a call that took it by the given access.
After(access) == IF access = "*" THEN NoMatrix ELSE m

(* ------------------------------ actions ------------------------------- *)

\* let m = Matrix::new(rows, columns, default)
New ==
    /\ Idle
    /\ m = NoMatrix
    /\ \E rows \in Dims, columns \in Dims, default \in Defaults :
          LET r == new(rows, columns, default)
          IN  /\ res' = r
              /\ m' = Bound(r)
              /\ call' = [NoCall EXCEPT !.op = "new", !.rows = rows,
                                        !.columns = columns, !.value = default]
    /\ chain' = 0
    /\ UNCHANGED <<heap_vars, net_vars, map_vars>>

\* let m = Matrix::from_slice(rows, columns, data)
FromSlice ==
    /\ Idle
    /\ m = NoMatrix
    /\ \E rows \in Dims, columns \in Dims, data \in Slices :
          LET r == from_slice(rows, columns, data)
          IN  /\ res' = r
              /\ m' = Bound(r)
              /\ call' = [NoCall EXCEPT !.op = "from_slice", !.rows = rows,
                                        !.columns = columns, !.data = data]
    /\ chain' = 0
    /\ UNCHANGED <<heap_vars, net_vars, map_vars>>

\* let m = Matrix::from_random(rows, columns)
FromRandom ==
    /\ Idle
    /\ m = NoMatrix
    /\ \E rows \in Dims, columns \in Dims, seed \in Seeds :
          LET r == from_random(rows, columns, seed)
          IN  /\ res' = r
              /\ m' = Bound(r)
              /\ call' = [NoCall EXCEPT !.op = "from_random", !.rows = rows,
                                        !.columns = columns, !.value = seed]
    /\ chain' = 0
    /\ UNCHANGED <<heap_vars, net_vars, map_vars>>

\* The caller has looked at the outcome of the last call and goes on.
Continue ==
    /\ call # NoCall
    /\ frame = NoFrame
    /\ res' = NoResult
    /\ call' = NoCall
    /\ UNCHANGED <<m, chain>>
    /\ UNCHANGED <<heap_vars, net_vars, map_vars>>

\* m goes out of scope.
Drop ==
    /\ Idle
    /\ m # NoMatrix
    /\ m' = NoMatrix
    /\ chain' = 0
    /\ UNCHANGED <<res, call>>
    /\ UNCHANGED <<heap_vars, net_vars, map_vars>>

\* m.get(row, column)
Get ==
    /\ Idle
    /\ m # NoMatrix
    /\ \E row \in 0..(m.rows + 1), column \in 0..(m.columns + 1), oc \in BOOLEAN :
          /\ res' = get(m, row, column, oc)
          /\ call' = [NoCall EXCEPT !.op = "get", !.self = m, !.row = row,
                                    !.column = column]
    /\ UNCHANGED <<m, chain>>
    /\ UNCHANGED <<heap_vars, net_vars, map_vars>>

\* The usize values handed as a row or column of a matrix with n rows or
\* columns: the ones inside, n itself and n + 1.
Coordinates(n) == {k \in 0..(n + 1) : k <= UsizeMax}

\* unsafe { m.get_unchecked(row, column) }
GetUnchecked ==
    /\ Idle
    /\ m # NoMatrix
    /\ \E row \in Coordinates(m.rows), column \in Coordinates(m.columns),
          oc \in BOOLEAN :
          /\ LET e == get_unchecked(m, row, column, oc)
             IN  res' = IF e.ok THEN OkElem(e.v) ELSE Panic(e.why)
          /\ call' = [NoCall EXCEPT !.op = "get_unchecked", !.self = m,
                                    !.row = row, !.column = column]
    /\ UNCHANGED <<m, chain>>
    /\ UNCHANGED <<heap_vars, net_vars, map_vars>>

\* m.transpose()
Transpose ==
    /\ Idle
    /\ m # NoMatrix
    /\ \E oc \in BOOLEAN :
          /\ res' = transpose(m, oc)
          /\ call' = [NoCall EXCEPT !.op = "transpose", !.self = m]
    /\ UNCHANGED <<m, chain>>
    /\ UNCHANGED <<heap_vars, net_vars, map_vars>>

\* m.matrix_mul(&other)
MatrixMul ==
    /\ Idle
    /\ m # NoMatrix
    /\ \E other \in Others, oc \in BOOLEAN :
          /\ res' = matrix_mul(m, other, oc)
          /\ call' = [NoCall EXCEPT !.op = "matrix_mul", !.self = m, !.other = other]
    /\ UNCHANGED <<m, chain>>
    /\ UNCHANGED <<heap_vars, net_vars, map_vars>>

\* m.map(mapping): m is mutated in place; a panic unwinds and m is lost.
Map ==
    /\ Idle
    /\ m # NoMatrix
    /\ chain < MaxChain
    /\ \E name \in UserMappings, oc \in BOOLEAN :
          LET r == map(m, UserClosure(name), oc)
          IN  /\ res' = IF r.tag = "Ok" THEN OkUnit ELSE r
              /\ m' = Bound(r)
              /\ call' = [NoCall EXCEPT !.op = "map", !.self = m, !.operator = name]
    /\ chain' = chain + 1
    /\ UNCHANGED <<heap_vars, net_vars, map_vars>>

\* m.map_ref_mut(mapping)
MapRefMut ==
    /\ Idle
    /\ m # NoMatrix
    /\ chain < MaxChain
    /\ \E name \in UserMappings, oc \in BOOLEAN :
          LET r == map_ref_mut(m, UserClosure(name), oc)
          IN  /\ res' = IF r.tag = "Ok" THEN OkUnit ELSE r
              /\ m' = Bound(r)
              /\ call' = [NoCall EXCEPT !.op = "map_ref_mut", !.self = m,
                                        !.operator = name]
    /\ chain' = chain + 1
    /\ UNCHANGED <<heap_vars, net_vars, map_vars>>

\* m op scalar, &m op scalar
ScalarBinary ==
    /\ Idle
    /\ m # NoMatrix
    /\ \E op \in BinaryOperators, other \in Scalars, access \in Access, oc \in BOOLEAN :
          /\ res' = scalar_binary_operator(m, op, other, oc)
          /\ m' = After(access)
          /\ call' = [NoCall EXCEPT !.op = "scalar_binary", !.self = m,
                                    !.operator = op, !.value = other, !.lhs = access]
    /\ chain' = chain
    /\ UNCHANGED <<heap_vars, net_vars, map_vars>>

\* m op= scalar
ScalarAssign ==
    /\ Idle
    /\ m # NoMatrix
    /\ chain < MaxChain
    /\ \E op \in BinaryOperators, other \in Scalars, oc \in BOOLEAN :
          LET r == scalar_assign_operator(m, op, other, oc)
          IN  /\ res' = IF r.tag = "Ok" THEN OkUnit ELSE r
              /\ m' = Bound(r)
              /\ call' = [NoCall EXCEPT !.op = "scalar_assign", !.self = m,
                                        !.operator = op, !.value = other]
    /\ chain' = chain + 1
    /\ UNCHANGED <<heap_vars, net_vars, map_vars>>

\* op m, op &m
Unary ==
    /\ Idle
    /\ m # NoMatrix
    /\ \E op \in UnaryOperators, access \in Access, oc \in BOOLEAN :
          /\ res' = unary_operator(m, op, oc)
          /\ m' = After(access)
          /\ call' = [NoCall EXCEPT !.op = "unary", !.self = m, !.operator = op,
                                    !.lhs = access]
    /\ chain' = chain
    /\ UNCHANGED <<heap_vars, net_vars, map_vars>>

\* m op other, for owned and referenced m and other
ElementWise ==
    /\ Idle
    /\ m # NoMatrix
    /\ \E op \in BinaryOperators, other \in Others, lhs \in Access, rhs \in Access,
          oc \in BOOLEAN :
          /\ res' = element_wise_binary_operator(m, op, other, oc)
          /\ m' = After(lhs)
          /\ call' = [NoCall EXCEPT !.op = "element_wise", !.self = m, !.other = other,
                                    !.operator = op, !.lhs = lhs, !.rhs = rhs]
    /\ chain' = chain
    /\ UNCHANGED <<heap_vars, net_vars, map_vars>>

\* format!("{}", m)
Display ==
    /\ Idle
    /\ m # NoMatrix
    /\ \E oc \in BOOLEAN :
          /\ res' = fmt(m, oc)
          /\ call' = [NoCall EXCEPT !.op = "fmt", !.self = m]
    /\ UNCHANGED <<m, chain>>
    /\ UNCHANGED <<heap_vars, net_vars, map_vars>>

Next ==
    \/ New
    \/ FromSlice
    \/ FromRandom
    \/ Drop
    \/ Get
    \/ GetUnchecked
    \/ Transpose
    \/ MatrixMul
    \/ Map
    \/ MapRefMut
    \/ ScalarBinary
    \/ ScalarAssign
    \/ Unary
    \/ ElementWise
    \/ Display
    \/ Continue

Spec == Init /\ [][Next]_vars


(* ------------------- matrices and their buffers ----------------------- *)

\* The data of a matrix is a Vec<T>, which owns a buffer.  Here a matrix holds
\* the address of its buffer in `heap`, so that two matrices can be seen to
\* share a buffer or not.

\* Vec::with_capacity: an empty buffer at an address not in use.
Vec_with_capacity(h) == [heap |-> Append(h, <<>>), data |-> Len(h) + 1]

\* Mutant: the copy of a vector shares the buffer of the vector it was made of.
Vec_clone_shares_buffer(h, data) == [heap |-> h, data |-> data]

\* self.data.clone(): a buffer at an address not in use, with the same elements.
Vec_clone(h, data) == [heap |-> Append(h, h[data]), data |-> Len(h) + 1]

\* data.to_vec(): a buffer at an address not in use, with the elements of the slice.
to_vec(h, slice) == [heap |-> Append(h, slice), data |-> Len(h) + 1]

\* The rows, columns and elements of the matrix whose buffer is at x.data.
Deref(h, x) == Matrix(x.rows, x.columns, h[x.data])

\* Drop of a vector: its buffer, the one allocated last, is free again.
free(h, data) == IF data = Len(h) THEN SubSeq(h, 1, Len(h) - 1) ELSE h

\* The writes of an operation to the buffer at the address data.
Store(h, data, elements) == [h EXCEPT ![data] = elements]

\* The outcome of an operator for the caller: the buffers afterwards and the
\* matrix returned, if any.  r is what the operator computed into the buffer that
\* v allocated; the buffer of a matrix that is not returned is freed again.
Returned(h, v, r) ==
    IF r.tag = "Ok"
    THEN [heap |-> Store(v.heap, v.data, r.val.data),
          result |-> Matrix(r.val.rows, r.val.columns, v.data)]
    ELSE [heap |-> h, result |-> NoMatrix]

\* let operand = Matrix::from_slice(..); let argument = Matrix::from_slice(..)
HFromSlice ==
    /\ operand = NoMatrix
    /\ \E a \in Others, b \in Others :
          LET va == to_vec(heap, a.data)
              vb == to_vec(va.heap, b.data)
          IN  /\ heap' = vb.heap
              /\ operand' = Matrix(a.rows, a.columns, va.data)
              /\ argument' = Matrix(b.rows, b.columns, vb.data)
              /\ original' = [operand |-> a, argument |-> b]
    /\ call' = [NoCall EXCEPT !.op = "from_slice"]
    /\ UNCHANGED <<m, res, chain, result, net_vars, map_vars>>

\* let result = operand.transpose()
HTranspose ==
    /\ operand # NoMatrix
    /\ result = NoMatrix
    /\ \E oc \in BOOLEAN :
          \E out \in {Returned(heap, Vec_with_capacity(heap),
                               transpose(Deref(heap, operand), oc))} :
              /\ heap' = out.heap
              /\ result' = out.result
    /\ call' = [NoCall EXCEPT !.op = "transpose"]
    /\ UNCHANGED <<m, res, chain, operand, argument, original, net_vars, map_vars>>

\* let result = operand.matrix_mul(&argument)
HMatrixMul ==
    /\ operand # NoMatrix
    /\ result = NoMatrix
    /\ \E oc \in BOOLEAN :
          \E out \in {Returned(heap, Vec_with_capacity(heap),
                               matrix_mul(Deref(heap, operand), Deref(heap, argument), oc))} :
              /\ heap' = out.heap
              /\ result' = out.result
    /\ call' = [NoCall EXCEPT !.op = "matrix_mul"]
    /\ UNCHANGED <<m, res, chain, operand, argument, original, net_vars, map_vars>>

\* let result = &operand op scalar
HScalarBinary ==
    /\ operand # NoMatrix
    /\ result = NoMatrix
    /\ \E op \in BinaryOperators, other \in Scalars, oc \in BOOLEAN :
          \E v \in {Vec_clone(heap, operand.data)} :
          \E out \in {Returned(heap, v,
                               map(Matrix(operand.rows, operand.columns, v.heap[v.data]),
                                   ScalarClosure(op, other), oc))} :
              /\ heap' = out.heap
              /\ result' = out.result
    /\ call' = [NoCall EXCEPT !.op = "scalar_binary"]
    /\ UNCHANGED <<m, res, chain, operand, argument, original, net_vars, map_vars>>

\* let result = op &operand
HUnary ==
    /\ operand # NoMatrix
    /\ result = NoMatrix
    /\ \E op \in UnaryOperators, oc \in BOOLEAN :
          \E v \in {Vec_clone(heap, operand.data)} :
          \E out \in {Returned(heap, v,
                               map(Matrix(operand.rows, operand.columns, v.heap[v.data]),
                                   UnaryClosure(op), oc))} :
              /\ heap' = out.heap
              /\ result' = out.result
    /\ call' = [NoCall EXCEPT !.op = "unary"]
    /\ UNCHANGED <<m, res, chain, operand, argument, original, net_vars, map_vars>>

\* let result = &operand op &argument
HElementWise ==
    /\ operand # NoMatrix
    /\ result = NoMatrix
    /\ \E op \in BinaryOperators, oc \in BOOLEAN :
          \E v \in {Vec_clone(heap, operand.data)} :
          \E out \in {IF \/ get_rows(operand) # get_rows(argument)
                         \/ get_columns(operand) # get_columns(argument)
                      THEN [heap |-> heap, result |-> NoMatrix]
                      ELSE Returned(heap, v,
                               map(Matrix(operand.rows, operand.columns, v.heap[v.data]),
                                   ElementWiseClosure(op, Deref(v.heap, argument)), oc))} :
              /\ heap' = out.heap
              /\ result' = out.result
    /\ call' = [NoCall EXCEPT !.op = "element_wise"]
    /\ UNCHANGED <<m, res, chain, operand, argument, original, net_vars, map_vars>>

\* The in-place calls on a matrix: map and map_ref_mut with the closures of a
\* caller, and the compound assignments -= 2 and ^= 2.
Mutations ==
    {[fn |-> "map", mapping |-> UserClosure(name)] : name \in UserMappings}
    \cup {[fn |-> "map_ref_mut", mapping |-> UserClosure(name)] : name \in UserMappings}
    \cup {[fn |-> "scalar_assign", mapping |-> ScalarAssignClosure(op, 2)] :
             op \in {"-", "^"}}

\* result.map(..), result.map_ref_mut(..), result op= scalar: the elements are
\* written to the buffer of result; a panic unwinds and result is dropped.
HMutate ==
    /\ result # NoMatrix
    /\ chain < MaxMutations
    /\ \E mutation \in Mutations, oc \in BOOLEAN :
          \E self \in {Deref(heap, result)} :
          \E r \in {IF mutation.fn = "map" THEN map(self, mutation.mapping, oc)
                    ELSE map_ref_mut(self, mutation.mapping, oc)} :
              /\ heap' = IF r.tag = "Ok" THEN Store(heap, result.data, r.val.data)
                         ELSE free(heap, result.data)
              /\ result' = IF r.tag = "Ok" THEN result ELSE NoMatrix
              /\ chain' = IF r.tag = "Ok" THEN chain + 1 ELSE 0
              /\ call' = [NoCall EXCEPT !.op = mutation.fn]
    /\ UNCHANGED <<m, res, operand, argument, original, net_vars, map_vars>>

\* result goes out of scope: its buffer is freed.
HDrop ==
    /\ result # NoMatrix
    /\ result' = NoMatrix
    /\ heap' = free(heap, result.data)
    /\ chain' = 0
    /\ call' = [NoCall EXCEPT !.op = "drop"]
    /\ UNCHANGED <<m, res, operand, argument, original, net_vars, map_vars>>

HeapNext ==
    \/ HFromSlice
    \/ HTranspose
    \/ HMatrixMul
    \/ HScalarBinary
    \/ HUnary
    \/ HElementWise
    \/ HMutate
    \/ HDrop

HeapSpec == Init /\ [][HeapNext]_vars

(* ----------------------- Layer and NeuralNetwork ---------------------- *)

\* The matrices of a layer are Matrix<f64>.  The model takes the f64 values that
\* are small integers, on which the addition and multiplication of f64 are exact
\* and are the ones of the element type of the model.

\* struct Layer { weights, bias }
Layer(weights, bias) == [weights |-> weights, bias |-> bias]

\* struct NeuralNetwork { layers }
NeuralNetwork(layers_) == [layers |-> layers_]

\* Mutant: the weights are created as an i x o matrix.
Layer_new_weights_i_x_o(input_nodes, output_nodes, seed) ==
    LET weights == from_random(input_nodes, output_nodes, seed)
    IN  IF weights.tag = "Err" THEN weights
        ELSE LET bias == from_random(output_nodes, 1, seed + Len(weights.val.data))
             IN  IF bias.tag = "Err" THEN bias
                 ELSE Ok(Layer(weights.val, bias.val))

\* Mutant: the bias is created as an o x o matrix.
Layer_new_bias_o_x_o(input_nodes, output_nodes, seed) ==
    LET weights == from_random(output_nodes, input_nodes, seed)
    IN  IF weights.tag = "Err" THEN weights
        ELSE LET bias == from_random(output_nodes, output_nodes,
                                     seed + Len(weights.val.data))
             IN  IF bias.tag = "Err" THEN bias
                 ELSE Ok(Layer(weights.val, bias.val))

\* Layer::new, the random number generator of the thread being in state seed.
Layer_new(input_nodes, output_nodes, seed) ==
    LET weights == from_random(output_nodes, input_nodes, seed)
    IN  IF weights.tag = "Err" THEN weights
        ELSE LET bias == from_random(output_nodes, 1, seed + Len(weights.val.data))
             IN  IF bias.tag = "Err" THEN bias
                 ELSE Ok(Layer(weights.val, bias.val))

\* Layer::predict after the check of the input: matrix_mul, add, map.
Layer_predict_output(self, input, oc) ==
    CHOOSE mapped \in
       {IF product.tag # "Ok" THEN product
        ELSE CHOOSE activated \in
                {IF output.tag # "Ok" THEN output
                 ELSE map(output.val, ActivationClosure, oc) :
                    output \in {element_wise_binary_operator(product.val, "+",
                                                             self.bias, oc)}} : TRUE :
           product \in {matrix_mul(self.weights, input, oc)}} : TRUE

\* Mutant: the rows of the input are compared with 1.
Layer_predict_checks_rows(self, input, oc) ==
    IF get_rows(input) # 1 THEN Err("DimensionMismatch")
    ELSE Layer_predict_output(self, input, oc)

\* Layer::predict
Layer_predict(self, input, oc) ==
    IF get_columns(input) # 1 THEN Err("DimensionMismatch")
    ELSE Layer_predict_output(self, input, oc)

\* Mutant: the vector of layers is not looked at.
NeuralNetwork_new_unchecked(layers_) == Ok(NeuralNetwork(layers_))

\* NeuralNetwork::new
NeuralNetwork_new(layers_) ==
    IF Len(layers_) = 0 THEN Err("EmptyNetwork")
    ELSE Ok(NeuralNetwork(layers_))

\* Matrix::get_number_of_columns, the name NeuralNetwork::predict calls the
\* number of columns by.
get_number_of_columns(self) == self.columns

\* The outcome of NeuralNetwork::predict, with the matrices that were passed
\* to Layer::predict, in the order of the calls.
Predicted(r, passed) == [result |-> r, passed |-> passed]

\* NeuralNetwork::predict: the loop over the layers, `output` being passed to
\* the first of layers_; an error of a layer is returned at once (`?`).
\* (r ranges over a set of one element: the layer is evaluated once.)
RECURSIVE predict_loop(_, _, _, _)
predict_loop(layers_, output, passed, oc) ==
    IF layers_ = <<>> THEN Predicted(Ok(output), passed)
    ELSE CHOOSE p \in
            {IF r.tag # "Ok" THEN Predicted(r, Append(passed, output))
             ELSE predict_loop(Tail(layers_), r.val, Append(passed, output), oc) :
                r \in {Layer_predict(Head(layers_), output, oc)}} : TRUE

\* Mutant: a layer that fails is left out and the loop goes on.
RECURSIVE predict_loop_keeps_going(_, _, _, _)
predict_loop_keeps_going(layers_, output, passed, oc) ==
    IF layers_ = <<>> THEN Predicted(Ok(output), passed)
    ELSE CHOOSE p \in
            {predict_loop_keeps_going(Tail(layers_),
                                      IF r.tag # "Ok" THEN output ELSE r.val,
                                      Append(passed, output), oc) :
                r \in {Layer_predict(Head(layers_), output, oc)}} : TRUE

\* Mutant: the errors of the layers are not returned.
NeuralNetwork_predict_keeps_going(self, input, oc) ==
    IF get_number_of_columns(input) # 1
    THEN Predicted(Err("DimensionMismatch"), <<>>)
    ELSE predict_loop_keeps_going(self.layers, input, <<>>, oc)

\* Mutant: the first layer is left out.
NeuralNetwork_predict_skips_first_layer(self, input, oc) ==
    IF get_number_of_columns(input) # 1
    THEN Predicted(Err("DimensionMismatch"), <<>>)
    ELSE predict_loop(Tail(self.layers), input, <<>>, oc)

\* Mutant: the layers are applied from the last to the first.
NeuralNetwork_predict_backwards(self, input, oc) ==
    IF get_number_of_columns(input) # 1
    THEN Predicted(Err("DimensionMismatch"), <<>>)
    ELSE predict_loop([k \in 1..Len(self.layers) |->
                          self.layers[Len(self.layers) + 1 - k]], input, <<>>, oc)

\* NeuralNetwork::predict
NeuralNetwork_predict(self, input, oc) ==
    IF get_number_of_columns(input) # 1
    THEN Predicted(Err("DimensionMismatch"), <<>>)
    ELSE predict_loop(self.layers, input, <<>>, oc)

\* The number of samples the generator of the thread has handed out for the
\* layers built so far; the generator starts in state 0.
RECURSIVE Drawn(_)
Drawn(layers_) ==
    IF layers_ = <<>> THEN 0
    ELSE Len(Head(layers_).weights.data) + Len(Head(layers_).bias.data)
         + Drawn(Tail(layers_))

\* The numbers of nodes handed to Layer::new and to the builder.
Nodes == {1, 2, 3, UsizeMax}

\* The matrices handed to predict: columns of ones, as Matrix::new builds them,
\* with one column or two, and columns built from a slice.
Inputs ==
    {x \in {Matrix(r, c, [k \in 1..(r * c) |-> 1]) : r \in Dims, c \in {1, 2}} :
        x.rows * x.columns <= UsizeMax}
    \cup {Matrix(r, 1, Ramp(0, r)) : r \in 1..MaxDim}

\* layers.push(Layer::new(input_nodes, output_nodes)?)
LayerNew ==
    /\ Idle
    /\ network = NoNetwork
    /\ Len(layers) < MaxLayers
    /\ \E input_nodes \in Nodes, output_nodes \in Nodes :
          \E r \in {Layer_new(input_nodes, output_nodes, Drawn(layers))} :
              /\ res' = r
              /\ layers' = IF r.tag = "Ok" THEN Append(layers, r.val) ELSE layers
              /\ call' = [NoCall EXCEPT !.op = "Layer::new",
                                        !.input_nodes = input_nodes,
                                        !.output_nodes = output_nodes]
    /\ UNCHANGED <<m, chain, heap_vars, network, builder, map_vars>>

\* layers.last().predict(input)
LayerPredict ==
    /\ Idle
    /\ layers # <<>>
    /\ \E input \in Inputs, oc \in BOOLEAN :
          /\ res' = Layer_predict(layers[Len(layers)], input, oc)
          /\ call' = [NoCall EXCEPT !.op = "Layer::predict",
                                    !.self = layers[Len(layers)], !.input = input]
    /\ UNCHANGED <<m, chain, heap_vars, net_vars, map_vars>>

\* let network = NeuralNetwork::new(layers): the vector of layers is moved.
NetworkNew ==
    /\ Idle
    /\ network = NoNetwork
    /\ \E r \in {NeuralNetwork_new(layers)} :
           /\ res' = r
           /\ network' = IF r.tag = "Ok" THEN Some(r.val) ELSE NoNetwork
           /\ call' = [NoCall EXCEPT !.op = "NeuralNetwork::new", !.layers = layers]
    /\ layers' = <<>>
    /\ UNCHANGED <<m, chain, heap_vars, builder, map_vars>>

\* network goes out of scope.
NetworkDrop ==
    /\ Idle
    /\ network # NoNetwork
    /\ network' = NoNetwork
    /\ UNCHANGED <<m, res, call, chain, heap_vars, layers, builder, map_vars>>

\* network.predict(input)
NetworkPredict ==
    /\ Idle
    /\ network # NoNetwork
    /\ \E input \in Inputs, oc \in BOOLEAN :
          \E p \in {NeuralNetwork_predict(network[1], input, oc)} :
              /\ res' = p.result
              /\ call' = [NoCall EXCEPT !.op = "NeuralNetwork::predict",
                                        !.layers = network[1].layers,
                                        !.input = input, !.passed = p.passed]
    /\ UNCHANGED <<m, chain, heap_vars, net_vars, map_vars>>

NetNext ==
    \/ LayerNew
    \/ LayerPredict
    \/ NetworkNew
    \/ NetworkPredict
    \/ NetworkDrop
    \/ Continue

NetSpec == Init /\ [][NetNext]_vars


(* ------------------------ NeuralNetworkBuilder ------------------------- *)

\* struct NeuralNetworkBuilder { input_nodes, hidden_layer_nodes }
NeuralNetworkBuilder(input_nodes, hidden_layer_nodes) ==
    [input_nodes |-> input_nodes, hidden_layer_nodes |-> hidden_layer_nodes]

\* NeuralNetworkBuilder::new
NeuralNetworkBuilder_new(input_nodes) == NeuralNetworkBuilder(input_nodes, <<>>)

\* NeuralNetworkBuilder::add_hidden_layer: the builder after the call.
add_hidden_layer(self, nodes) ==
    [self EXCEPT !.hidden_layer_nodes = Append(@, nodes)]

\* Vec::append(&mut self, other: &mut Vec<T>): all elements of other are moved
\* to the end of self, other is left empty.
Vec_append(self, other) == [self |-> self \o other, other |-> <<>>]

\* Iterator::skip and Iterator::zip, on the sequences the iterators run over.
skip(iter, n) == SubSeq(iter, n + 1, Len(iter))
zip(a, b) == [k \in 1..(IF Len(a) <= Len(b) THEN Len(a) ELSE Len(b)) |-> <<a[k], b[k]>>]

\* Mutant: the output nodes are not taken from the next entry.
layer_pairs_without_skip(layer_nodes) == zip(layer_nodes, layer_nodes)

\* add_output_layer: input_iter.iter().zip(output_iter), the numbers of input
\* and output nodes of the layers.
layer_pairs(layer_nodes) == zip(layer_nodes, skip(layer_nodes, 1))

\* add_output_layer: the loop creating the layers; the error of Layer::new is
\* returned at once (`?`). The generator of the thread starts in state seed.
RECURSIVE layers_loop(_, _, _)
layers_loop(pairs, layers_, seed) ==
    IF pairs = <<>> THEN [Ok(NoMatrix) EXCEPT !.val = layers_]
    ELSE LET layer == Layer_new(Head(pairs)[1], Head(pairs)[2], seed + Drawn(layers_))
         IN  IF layer.tag # "Ok" THEN layer
             ELSE layers_loop(Tail(pairs), Append(layers_, layer.val), seed)

\* The outcome of a method on a builder, and the builder after the call.
Called(r, self) == [result |-> r, self |-> self]

\* add_output_layer: what it computes from the clone of hidden_layer_nodes.
add_output_layer_from(input_nodes, hidden_layer_nodes, nodes, seed, oc) ==
    LET number_of_nodes == usize_add(Len(hidden_layer_nodes), 2, oc)
        appended        == Vec_append(<<input_nodes>>, hidden_layer_nodes)
        layer_nodes     == Append(appended.self, nodes)
        layers_         == layers_loop(layer_pairs(layer_nodes), <<>>, seed)
    IN  [result |-> IF ~number_of_nodes.ok THEN Panic(number_of_nodes.why)
                    ELSE IF layers_.tag # "Ok" THEN layers_
                    ELSE NeuralNetwork_new(layers_.val),
         other  |-> appended.other]

\* Mutant: the hidden layers are moved out of the builder, not out of a clone.
add_output_layer_without_clone(self, nodes, seed, oc) ==
    LET from == add_output_layer_from(self.input_nodes, self.hidden_layer_nodes,
                                      nodes, seed, oc)
    IN  Called(from.result, [self EXCEPT !.hidden_layer_nodes = from.other])

\* NeuralNetworkBuilder::add_output_layer(&self, nodes)
add_output_layer(self, nodes, seed, oc) ==
    LET clone == self.hidden_layer_nodes
        from  == add_output_layer_from(self.input_nodes, clone, nodes, seed, oc)
    IN  Called(from.result, self)

\* let mut builder = NeuralNetworkBuilder::new(input_nodes)
BuilderNew ==
    /\ Idle
    /\ \E input_nodes \in Nodes :
          /\ builder' = Some(NeuralNetworkBuilder_new(input_nodes))
          /\ call' = [NoCall EXCEPT !.op = "NeuralNetworkBuilder::new",
                                    !.input_nodes = input_nodes]
    /\ res' = OkUnit
    /\ network' = NoNetwork
    /\ UNCHANGED <<m, chain, heap_vars, layers, map_vars>>

\* builder.add_hidden_layer(nodes), the caller holding no network.
AddHiddenLayer ==
    /\ Idle
    /\ builder # NoBuilder
    /\ network = NoNetwork
    /\ Len(builder[1].hidden_layer_nodes) < MaxHidden
    /\ \E nodes \in Nodes :
          /\ builder' = Some(add_hidden_layer(builder[1], nodes))
          /\ call' = [NoCall EXCEPT !.op = "add_hidden_layer",
                                    !.builder = builder, !.nodes = nodes]
    /\ res' = OkUnit
    /\ UNCHANGED <<m, chain, heap_vars, layers, network, map_vars>>

\* let network = builder.add_output_layer(nodes), also right after another
\* call of add_output_layer.
AddOutputLayer ==
    /\ Idle \/ call.op = "add_output_layer"
    /\ builder # NoBuilder
    /\ \E nodes \in Nodes, seed \in Seeds, oc \in BOOLEAN :
          \E c \in {add_output_layer(builder[1], nodes, seed, oc)} :
              /\ res' = c.result
              /\ builder' = Some(c.self)
              /\ network' = IF c.result.tag = "Ok" THEN Some(c.result.val)
                            ELSE NoNetwork
              /\ call' = [NoCall EXCEPT !.op = "add_output_layer",
                                        !.builder = builder, !.nodes = nodes]
    /\ UNCHANGED <<m, chain, heap_vars, layers, map_vars>>

BuilderNext ==
    \/ BuilderNew
    \/ AddHiddenLayer
    \/ AddOutputLayer
    \/ NetworkPredict
    \/ NetworkDrop
    \/ Continue

BuilderSpec == Init /\ [][BuilderNext]_vars


(* ------------------- map, one iteration at a time ---------------------- *)

\* A call of map or map_ref_mut in progress: the matrix it mutates, the data
\* the matrix had when the call began, the closure, the loop variables, and
\* the calls of the closure made so far, each with the element, the row, the
\* column and the index it was made for.
Frame(method, self, mapping, oc) ==
    [method |-> method, self |-> self, original |-> self.data, mapping |-> mapping,
     row |-> 0, column |-> 0, calls |-> <<>>, oc |-> oc, panic |-> ""]

\* Mutant: row and column are handed to the closure the wrong way round.
map_iteration_swapped_coordinates(f) ==
    LET index == get_index_unchecked(f.self, f.row, f.column, f.oc)
        old   == IF index.ok THEN data_at(f.self.data, index.v) ELSE index
        e     == IF old.ok
                 THEN apply_mapping(UserClosure(f.mapping), old.v, f.column, f.row, f.oc)
                 ELSE old
        last  == f.column + 1 >= get_columns(f.self)
    IN  IF ~e.ok THEN [f EXCEPT !.panic = e.why]
        ELSE [f EXCEPT !.self.data[index.v + 1] = e.v,
                       !.calls = Append(@, [element |-> old.v, row |-> f.column,
                                            column |-> f.row, index |-> index.v]),
                       !.row = IF last THEN @ + 1 ELSE @,
                       !.column = IF last THEN 0 ELSE @ + 1]

\* Matrix::map, Matrix::map_ref_mut: the body of the inner loop for the row
\* and column of the frame, and the step of the loops to the next column, or
\* to the first column of the next row.
map_iteration(f) ==
    LET index == get_index_unchecked(f.self, f.row, f.column, f.oc)
        old   == IF index.ok THEN data_at(f.self.data, index.v) ELSE index
        e     == IF old.ok
                 THEN apply_mapping(UserClosure(f.mapping), old.v, f.row, f.column, f.oc)
                 ELSE old
        last  == f.column + 1 >= get_columns(f.self)
    IN  IF ~e.ok THEN [f EXCEPT !.panic = e.why]
        ELSE [f EXCEPT !.self.data[index.v + 1] = e.v,
                       !.calls = Append(@, [element |-> old.v, row |-> f.row,
                                            column |-> f.column, index |-> index.v]),
                       !.row = IF last THEN @ + 1 ELSE @,
                       !.column = IF last THEN 0 ELSE @ + 1]

\* The methods that run the loops.
MapMethods == {"map", "map_ref_mut"}

\* m.map(mapping) or m.map_ref_mut(mapping) is called.
MapCall ==
    /\ Idle
    /\ m # NoMatrix
    /\ frame = NoFrame
    /\ chain < MaxChain
    /\ \E method \in MapMethods, name \in UserMappings, oc \in BOOLEAN :
          /\ frame' = Some(Frame(method, m, name, oc))
          /\ call' = [NoCall EXCEPT !.op = method, !.self = m, !.operator = name]
    /\ UNCHANGED <<m, res, chain, heap_vars, net_vars>>

\* One iteration of the inner loop; a panic unwinds and m is lost.
MapIteration ==
    /\ frame # NoFrame
    /\ frame[1].row < get_rows(frame[1].self)
    /\ LET f == map_iteration(frame[1])
       IN  IF f.panic # ""
           THEN /\ frame' = NoFrame
                /\ res' = Panic(f.panic)
                /\ m' = NoMatrix
                /\ call' = [call EXCEPT !.passed = f.calls]
           ELSE /\ frame' = Some(f)
                /\ UNCHANGED <<m, res, call>>
    /\ UNCHANGED <<chain, heap_vars, net_vars>>

\* The loops are over: the call returns and m is the mutated matrix.
MapReturn ==
    /\ frame # NoFrame
    /\ frame[1].row >= get_rows(frame[1].self)
    /\ m' = frame[1].self
    /\ res' = OkUnit
    /\ call' = [call EXCEPT !.passed = frame[1].calls]
    /\ frame' = NoFrame
    /\ chain' = chain + 1
    /\ UNCHANGED <<heap_vars, net_vars>>

MapNext ==
    \/ New
    \/ FromSlice
    \/ Drop
    \/ MapCall
    \/ MapIteration
    \/ MapReturn
    \/ Continue

MapSpec == Init /\ [][MapNext]_vars

(* ------------------------------- claims ------------------------------- *)

\* The invariant of struct Matrix.
WellFormed(x) ==
    /\ x.rows >= 1
    /\ x.columns >= 1
    /\ x.rows * x.columns <= UsizeMax
    /\ Len(x.data) = x.rows * x.columns

\* The calls that return a matrix.
ReturnsMatrix ==
    {"new", "from_slice", "from_random", "transpose", "matrix_mul",
     "scalar_binary", "unary", "element_wise"}

Constructors == {"new", "from_slice", "from_random"}

\* The element in the given row and column: the one at flat offset
\* columns * row + column of the data.
ElementAt(x, row, column) == x.data[x.columns * row + column + 1]

\* C1: every matrix the caller holds and every matrix a call returns has
\* rows >= 1, columns >= 1, rows * columns <= usize::MAX and exactly
\* rows * columns elements.
C1_MatrixInvariant ==
    /\ m # NoMatrix => WellFormed(m)
    /\ (call.op \in ReturnsMatrix /\ res.tag = "Ok") => WellFormed(res.val)

\* C1 witness: a matrix with several rows and columns that was mutated in place
\* is multiplied with another one.
C1_Witness ==
    /\ call.op = "matrix_mul"
    /\ res.tag = "Ok"
    /\ chain >= 1
    /\ m.rows > 1
    /\ m.columns > 1
    /\ res.val.columns > 1

\* C2: from_slice with a slice of exactly rows * columns elements (the product
\* not overflowing) succeeds; the matrix reports the given rows and columns and
\* its slice is the given data in the same order.
C2_FromSliceRoundTrip ==
    (/\ call.op = "from_slice"
     /\ call.rows * call.columns <= UsizeMax
     /\ Len(call.data) = call.rows * call.columns)
    => /\ res.tag = "Ok"
       /\ get_rows(res.val) = call.rows
       /\ get_columns(res.val) = call.columns
       /\ as_slice(res.val) = call.data
       /\ m = res.val

\* C2 witness: a 2x3 matrix was built from a slice of six elements.
C2_Witness ==
    /\ call.op = "from_slice"
    /\ call.rows = 2
    /\ call.columns = 3
    /\ res.tag = "Ok"
    /\ as_slice(res.val) = <<0, 1, 2, 3, 4, 5>>

\* C3: new, from_slice and from_random return DimensionsTooLarge whenever
\* rows * columns exceeds usize::MAX, whatever the length of the slice given to
\* from_slice; no panic, no matrix.
C3_DimensionsTooLarge ==
    (/\ call.op \in Constructors
     /\ call.rows * call.columns > UsizeMax)
    => /\ res = Err("DimensionsTooLarge")
       /\ m = NoMatrix

\* C3 witness: from_slice was called with overflowing dimensions and a slice
\* as long as the wrapped-around product.
C3_Witness ==
    /\ call.op = "from_slice"
    /\ call.rows * call.columns > UsizeMax
    /\ Len(call.data) = (call.rows * call.columns) % (UsizeMax + 1)
    /\ res.tag = "Err"

\* C4: when rows * columns does not overflow, from_slice returns
\* DimensionMismatch exactly when the slice does not have rows * columns
\* elements, and then it produces no matrix.
C4_FromSliceMismatch ==
    (/\ call.op = "from_slice"
     /\ call.rows * call.columns <= UsizeMax)
    => /\ (res = Err("DimensionMismatch"))
            <=> (Len(call.data) # call.rows * call.columns)
       /\ res.tag = "Err" => (m = NoMatrix /\ res.val = NoMatrix)

\* C4 witness: the slice was longer than rows * columns.
C4_Witness ==
    /\ call.op = "from_slice"
    /\ call.rows * call.columns <= UsizeMax
    /\ Len(call.data) > call.rows * call.columns
    /\ res = Err("DimensionMismatch")

C6_Transpose ==
    call.op = "transpose" =>
       /\ res.tag = "Ok"
       /\ res.val.rows = call.self.columns
       /\ res.val.columns = call.self.rows
       /\ Len(res.val.data) = call.self.rows * call.self.columns
       /\ \A i \in 0..(call.self.columns - 1), j \in 0..(call.self.rows - 1) :
             ElementAt(res.val, i, j) = ElementAt(call.self, j, i)
       /\ call.self = Matrix(2, 3, <<0, 1, 2, 3, 4, 5>>)
             => as_slice(res.val) = <<0, 3, 1, 4, 2, 5>>

\* C6 witness: the matrix [[0,1,2],[3,4,5]] was transposed.
C6_Witness ==
    /\ call.op = "transpose"
    /\ call.self = Matrix(2, 3, <<0, 1, 2, 3, 4, 5>>)
    /\ res.tag = "Ok"

\* C7: transposing the transpose of a matrix gives a matrix with the rows, the
\* columns and the data of the original.
C7_DoubleTranspose ==
    (call.op = "transpose" /\ res.tag = "Ok") =>
       \A oc \in BOOLEAN :
          LET back == transpose(res.val, oc)
          IN  /\ back.tag = "Ok"
              /\ get_rows(back.val) = get_rows(call.self)
              /\ get_columns(back.val) = get_columns(call.self)
              /\ as_slice(back.val) = as_slice(call.self)

\* C7 witness: a 3x2 matrix with distinct elements was transposed.
C7_Witness ==
    /\ call.op = "transpose"
    /\ call.self.rows = 3
    /\ call.self.columns = 2
    /\ call.self.data[1] # call.self.data[2]
    /\ res.tag = "Ok"

\* The exact sum of the products of row `row` of a and column `column` of b,
\* from product 0 to product k, accumulated from left to right.
RECURSIVE DotSum(_, _, _, _, _)
DotSum(a, b, row, column, k) ==
    IF k = 0 THEN ElementAt(a, row, 0) * ElementAt(b, 0, column)
    ELSE DotSum(a, b, row, column, k - 1) + ElementAt(a, row, k) * ElementAt(b, k, column)

InElemRange(x) == x >= ElemMin /\ x <= ElemMax

\* Some product or some partial sum of a.matrix_mul(b) is outside the range of T.
DotOverflows(a, b) ==
    \E row \in 0..(a.rows - 1), column \in 0..(b.columns - 1), k \in 0..(a.columns - 1) :
       \/ ~InElemRange(ElementAt(a, row, k) * ElementAt(b, k, column))
       \/ ~InElemRange(DotSum(a, b, row, column, k))

\* C8: matrix_mul returns DimensionMismatch whenever the columns of self differ
\* from the rows of other; when they agree and rows * other.columns does not
\* overflow, it returns a matrix with self.rows rows, other.columns columns and
\* that many elements (the call ends otherwise only where the arithmetic of T
\* itself panics on an overflow).
C8_MatrixMulShape ==
    call.op = "matrix_mul" =>
       /\ call.self.columns # call.other.rows => res = Err("DimensionMismatch")
       /\ (/\ call.self.columns = call.other.rows
           /\ call.self.rows * call.other.columns <= UsizeMax)
          => /\ res.tag = "Ok" \/ (res.tag = "Panic" /\ DotOverflows(call.self, call.other))
             /\ ~DotOverflows(call.self, call.other) => res.tag = "Ok"
             /\ res.tag = "Ok" =>
                   /\ get_rows(res.val) = call.self.rows
                   /\ get_columns(res.val) = call.other.columns
                   /\ Len(as_slice(res.val)) = call.self.rows * call.other.columns

\* C8 witness: a 2x3 matrix was multiplied with a 3x2 matrix.
C8_Witness ==
    /\ call.op = "matrix_mul"
    /\ call.self.rows = 2
    /\ call.self.columns = 3
    /\ call.other.columns = 2
    /\ res.tag = "Ok"

\* C9: the element of the product in row r and column c is the sum of
\* self[r][i] * other[i][c] over i, accumulated from the product for i = 0 on,
\* and it is stored at flat offset other.columns * r + c;
\* [[3,4,2]] times [[13,9,7,15],[8,7,4,6],[6,4,0,3]] is [[83,63,37,75]].
C9_MatrixMulElements ==
    (call.op = "matrix_mul" /\ res.tag = "Ok") =>
       /\ \A r \in 0..(call.self.rows - 1), c \in 0..(call.other.columns - 1) :
             as_slice(res.val)[call.other.columns * r + c + 1]
                = WrapElem(DotSum(call.self, call.other, r, c, call.self.columns - 1))
       /\ (call.self = Matrix(1, 3, ExampleA) /\ call.other = Matrix(3, 4, ExampleB))
             => res.val = Matrix(1, 4, <<83, 63, 37, 75>>)

\* C9 witness: the product of the test matrix_mul_correct_dimensions was computed.
C9_Witness ==
    /\ call.op = "matrix_mul"
    /\ call.self = Matrix(1, 3, ExampleA)
    /\ call.other = Matrix(3, 4, ExampleB)
    /\ res.tag = "Ok"

\* C10: when the columns of self equal the rows of other but
\* self.rows * other.columns exceeds usize::MAX, matrix_mul returns
\* DimensionsTooLarge.
C10_MatrixMulTooLarge ==
    (/\ call.op = "matrix_mul"
     /\ call.self.columns = call.other.rows
     /\ call.self.rows * call.other.columns > UsizeMax)
    => res = Err("DimensionsTooLarge")

\* C10 witness: a matrix with usize::MAX rows and one column was multiplied with
\* a matrix with one row and two columns.
C10_Witness ==
    /\ call.op = "matrix_mul"
    /\ call.self.rows = UsizeMax
    /\ call.self.columns = 1
    /\ call.other.rows = 1
    /\ call.other.columns = 2
    /\ res.tag = "Err"

\* The positions (row, column) of a matrix.
Cells(x) == (0..(x.rows - 1)) \X (0..(x.columns - 1))

SameShape(a, b) == a.rows = b.rows /\ a.columns = b.columns

\* C11: an element-wise binary operator, for every operator and every owned or
\* borrowed combination of the operands, returns DimensionMismatch exactly when
\* the rows or the columns of the operands differ; a 2x3 and a 3x2 matrix are
\* rejected although they have the same number of elements.
C11_ElementWiseMismatch ==
    call.op = "element_wise" =>
       /\ (res = Err("DimensionMismatch")) <=> ~SameShape(call.self, call.other)
       /\ (call.self.rows = 2 /\ call.self.columns = 3 /\ call.other.rows = 3
           /\ call.other.columns = 2) => res = Err("DimensionMismatch")

\* C11 witness: a borrowed 2x3 matrix and an owned 3x2 matrix were combined.
C11_Witness ==
    /\ call.op = "element_wise"
    /\ call.lhs = "&"
    /\ call.rhs = "*"
    /\ call.self.rows = 2
    /\ call.self.columns = 3
    /\ call.other.rows = 3
    /\ call.other.columns = 2
    /\ res = Err("DimensionMismatch")

\* C12: an element-wise binary operator on two matrices of the same shape
\* returns a matrix of that shape whose element at every position is the
\* element of self (left operand) combined with the element of other (right
\* operand); the call ends otherwise only where the operator of T itself
\* panics on some pair of elements.
C12_ElementWiseElements ==
    (call.op = "element_wise" /\ SameShape(call.self, call.other)) =>
       /\ res.tag = "Ok" =>
             /\ get_rows(res.val) = call.self.rows
             /\ get_columns(res.val) = call.self.columns
             /\ Len(as_slice(res.val)) = call.self.rows * call.self.columns
             /\ \A p \in Cells(call.self) :
                   binary_op(call.operator, ElementAt(call.self, p[1], p[2]),
                             ElementAt(call.other, p[1], p[2]), FALSE)
                      = V(ElementAt(res.val, p[1], p[2]))
       /\ res.tag # "Ok" =>
             /\ res = Panic("element")
             /\ \E p \in Cells(call.self) :
                   ~binary_op(call.operator, ElementAt(call.self, p[1], p[2]),
                              ElementAt(call.other, p[1], p[2]), TRUE).ok
       /\ (\A p \in Cells(call.self) :
              binary_op(call.operator, ElementAt(call.self, p[1], p[2]),
                        ElementAt(call.other, p[1], p[2]), TRUE).ok)
          => res.tag = "Ok"

\* C12 witness: a 2x3 matrix was subtracted from a different 2x3 matrix.
C12_Witness ==
    /\ call.op = "element_wise"
    /\ call.operator = "-"
    /\ call.self.rows = 2
    /\ call.self.columns = 3
    /\ SameShape(call.self, call.other)
    /\ call.self.data # call.other.data
    /\ res.tag = "Ok"
    /\ res.val.data[6] # 0

\* C13: a scalar binary operator on an owned or borrowed matrix never returns
\* an error; the result has the rows and columns of the matrix and its element
\* at every position is the element of the matrix (left operand) combined with
\* the scalar (right operand); the call ends otherwise only where the operator
\* of T itself panics on some element.
C13_ScalarBinary ==
    call.op = "scalar_binary" =>
       /\ res.tag # "Err"
       /\ res.tag = "Ok" =>
             /\ get_rows(res.val) = call.self.rows
             /\ get_columns(res.val) = call.self.columns
             /\ Len(as_slice(res.val)) = call.self.rows * call.self.columns
             /\ \A p \in Cells(call.self) :
                   binary_op(call.operator, ElementAt(call.self, p[1], p[2]),
                             call.value, FALSE)
                      = V(ElementAt(res.val, p[1], p[2]))
       /\ res.tag # "Ok" =>
             /\ res = Panic("element")
             /\ \E p \in Cells(call.self) :
                   ~binary_op(call.operator, ElementAt(call.self, p[1], p[2]),
                              call.value, TRUE).ok
       /\ (\A p \in Cells(call.self) :
              binary_op(call.operator, ElementAt(call.self, p[1], p[2]),
                        call.value, TRUE).ok)
          => res.tag = "Ok"

\* C13 witness: the scalar 2 was subtracted from a borrowed 3x2 matrix.
C13_Witness ==
    /\ call.op = "scalar_binary"
    /\ call.operator = "-"
    /\ call.value = 2
    /\ call.lhs = "&"
    /\ call.self.rows = 3
    /\ call.self.columns = 2
    /\ call.self.data[1] # call.self.data[6]
    /\ res.tag = "Ok"

\* C14: after `m op= s` the matrix m has the rows and columns it had and the
\* contents of the matrix that `m op s` returns for the old value of m; the
\* compound assignment panics only where `m op s` panics.
C14_ScalarAssign ==
    call.op = "scalar_assign" =>
       /\ res.tag # "Err"
       /\ res.tag = "Ok" =>
             /\ get_rows(m) = get_rows(call.self)
             /\ get_columns(m) = get_columns(call.self)
             /\ scalar_binary_operator(call.self, call.operator, call.value, FALSE).tag = "Ok"
             /\ \A oc \in BOOLEAN :
                   LET r == scalar_binary_operator(call.self, call.operator, call.value, oc)
                   IN  r.tag = "Ok" => as_slice(r.val) = as_slice(m)
       /\ res.tag = "Panic" =>
             scalar_binary_operator(call.self, call.operator, call.value, TRUE).tag = "Panic"

\* C14 witness: the elements of a 2x3 matrix were shifted left by 2 in place.
C14_Witness ==
    /\ call.op = "scalar_assign"
    /\ call.operator = "<<"
    /\ call.value = 2
    /\ call.self.rows = 2
    /\ call.self.columns = 3
    /\ res.tag = "Ok"
    /\ m # call.self
    /\ m.data[6] = 4 * call.self.data[6]

\* No sum of corresponding elements of a and b is outside the range of T.
NoAdditionOverflows(a, b) ==
    \A p \in Cells(a) :
       InElemRange(ElementAt(a, p[1], p[2]) + ElementAt(b, p[1], p[2]))

\* C15: for matrices m and other of the same shape, no addition of elements
\* overflowing, m + other succeeds, (m + other) - other succeeds and is a matrix
\* with the shape and the elements of m.
C15_AddThenSub ==
    (/\ call.op = "element_wise"
     /\ call.operator = "+"
     /\ SameShape(call.self, call.other)
     /\ NoAdditionOverflows(call.self, call.other))
    => /\ res.tag = "Ok"
       /\ \A oc \in BOOLEAN :
             element_wise_binary_operator(res.val, "-", call.other, oc) = Ok(call.self)

\* C15 witness: a 3x2 matrix with distinct elements was added to a 3x2 matrix.
C15_Witness ==
    /\ call.op = "element_wise"
    /\ call.operator = "+"
    /\ call.self.rows = 3
    /\ call.self.columns = 2
    /\ SameShape(call.self, call.other)
    /\ call.self.data[1] # call.self.data[2]
    /\ res.tag = "Ok"
    /\ res.val # call.self

\* C16: transpose, matrix_mul and the by-reference forms of the scalar, the
\* element-wise and the unary operators leave their operands as they were
\* constructed, and the matrix they return has a buffer of its own: whatever is
\* later done to it in place by map, map_ref_mut or a compound assignment, the
\* operands keep their rows, columns and contents.
C16_NoAliasing ==
    operand # NoMatrix =>
       /\ Deref(heap, operand) = original.operand
       /\ Deref(heap, argument) = original.argument
       /\ result # NoMatrix =>
             /\ result.data # operand.data
             /\ result.data # argument.data

\* C16 witness: the matrix an operator returned for a 2x3 operand was changed in
\* place and no longer has the contents the operator gave it.
C16_Witness ==
    /\ call.op \in {"map", "map_ref_mut", "scalar_assign"}
    /\ chain >= 1
    /\ operand.rows = 2
    /\ operand.columns = 3
    /\ result # NoMatrix
    /\ result.rows = 2
    /\ heap[result.data] # heap[operand.data]
    /\ heap[result.data][1] # heap[operand.data][1] + 1

\* The shapes of a layer with the given numbers of input and output nodes.
LayerShape(layer, input_nodes, output_nodes) ==
    /\ get_rows(layer.weights) = output_nodes
    /\ get_columns(layer.weights) = input_nodes
    /\ get_rows(layer.bias) = output_nodes
    /\ get_columns(layer.bias) = 1

\* The layers the caller holds, in its vector and in its network.
LayersHeld ==
    {layers[k] : k \in 1..Len(layers)}
    \cup UNION {{n.layers[k] : k \in 1..Len(n.layers)} : n \in {network[j] : j \in 1..Len(network)}}

\* C17: the layer Layer::new(input_nodes, output_nodes) returns has weights of
\* shape output_nodes x input_nodes and a bias of shape output_nodes x 1; every
\* layer held has weights and bias with the same number of rows, also after
\* calls of predict.
C17_LayerShape ==
    /\ (call.op = "Layer::new" /\ res.tag = "Ok") =>
          /\ LayerShape(res.val, call.input_nodes, call.output_nodes)
          /\ WellFormed(res.val.weights)
          /\ WellFormed(res.val.bias)
          /\ layers[Len(layers)] = res.val
    /\ \A layer \in LayersHeld :
          /\ get_rows(layer.weights) = get_rows(layer.bias)
          /\ get_columns(layer.bias) = 1
    /\ call.op = "Layer::predict" =>
          /\ layers # <<>>
          /\ layers[Len(layers)] = call.self

\* C17 witness: a layer with 3 input nodes and 2 output nodes has predicted.
C17_Witness ==
    /\ call.op = "Layer::predict"
    /\ res.tag = "Ok"
    /\ layers # <<>>
    /\ LayerShape(layers[Len(layers)], 3, 2)

\* C18: Layer::new returns DimensionsTooLarge exactly when
\* input_nodes * output_nodes exceeds usize::MAX, and no other error: the
\* output_nodes x 1 bias never fails.
C18_LayerTooLarge ==
    call.op = "Layer::new" =>
       /\ (res = Err("DimensionsTooLarge"))
             <=> (call.input_nodes * call.output_nodes > UsizeMax)
       /\ res.tag # "Ok" => res = Err("DimensionsTooLarge")
       /\ \A seed \in Seeds :
             from_random(call.output_nodes, 1, seed).tag = "Ok"

\* C18 witness: a layer with 2 input nodes and usize::MAX output nodes was
\* refused, although a bias of usize::MAX rows and one column can be built.
C18_Witness ==
    /\ call.op = "Layer::new"
    /\ call.input_nodes = 2
    /\ call.output_nodes = UsizeMax
    /\ res = Err("DimensionsTooLarge")
    /\ from_random(UsizeMax, 1, 0).tag = "Ok"
    /\ Len(layers) = 1

\* C19: predict of a layer with i input nodes and o output nodes returns
\* DimensionMismatch exactly when the input does not have one column or does not
\* have i rows; otherwise it returns a matrix with o rows and one column.
C19_LayerPredict ==
    call.op = "Layer::predict" =>
       LET i == get_columns(call.self.weights)
           o == get_rows(call.self.weights)
       IN  /\ (res = Err("DimensionMismatch"))
                 <=> (get_columns(call.input) # 1 \/ get_rows(call.input) # i)
           /\ (get_columns(call.input) = 1 /\ get_rows(call.input) = i) =>
                 /\ res.tag = "Ok"
                 /\ get_rows(res.val) = o
                 /\ get_columns(res.val) = 1
                 /\ Len(as_slice(res.val)) = o

\* C19 witness: a layer with 3 input nodes and 2 output nodes has predicted for
\* an input of 3 rows and one column.
C19_Witness ==
    /\ call.op = "Layer::predict"
    /\ LayerShape(call.self, 3, 2)
    /\ get_rows(call.input) = 3
    /\ get_columns(call.input) = 1
    /\ res.tag = "Ok"
    /\ get_rows(res.val) = 2

\* C20: NeuralNetwork::new returns EmptyNetwork exactly when the vector of
\* layers is empty; otherwise the network holds the given layers in the given
\* order; every network has at least one layer.
C20_EmptyNetwork ==
    /\ call.op = "NeuralNetwork::new" =>
          /\ (res = Err("EmptyNetwork")) <=> (call.layers = <<>>)
          /\ call.layers # <<>> =>
                /\ res.tag = "Ok"
                /\ res.val.layers = call.layers
                /\ network = Some(res.val)
    /\ \A j \in 1..Len(network) : Len(network[j].layers) >= 1

\* C20 witness: a network was built from two layers of different shapes.
C20_Witness ==
    /\ call.op = "NeuralNetwork::new"
    /\ res.tag = "Ok"
    /\ network # NoNetwork
    /\ Len(network[1].layers) = 2
    /\ get_rows(network[1].layers[1].weights) # get_rows(network[1].layers[2].weights)

\* The number of input nodes and of output nodes of a layer.
InputNodes(layer) == get_columns(layer.weights)
OutputNodes(layer) == get_rows(layer.weights)

\* The indices j of the layers whose successor does not take what they give.
Mismatches(layers_) ==
    {j \in 1..(Len(layers_) - 1) : OutputNodes(layers_[j]) # InputNodes(layers_[j + 1])}

\* C21: NeuralNetwork::predict returns DimensionMismatch, and no matrix, when
\* the input has more than one column, and when it has one column and a
\* number of rows other than the number of input nodes of the first layer.
C21_PredictInputMismatch ==
    (/\ call.op = "NeuralNetwork::predict"
     /\ \/ call.input.columns > 1
        \/ call.input.columns = 1 /\ call.input.rows # InputNodes(call.layers[1]))
    => /\ res = Err("DimensionMismatch")
       /\ res.val = NoMatrix

\* C21 witness: a column of two elements was handed to a network of two
\* layers, the first with three input nodes, the second with two.
C21_Witness ==
    /\ call.op = "NeuralNetwork::predict"
    /\ Len(call.layers) = 2
    /\ InputNodes(call.layers[1]) = 3
    /\ InputNodes(call.layers[2]) = 2
    /\ call.input.columns = 1
    /\ call.input.rows = 2
    /\ res = Err("DimensionMismatch")

\* The sizes [input_nodes, hidden_1, ..., hidden_k, nodes] of a builder and
\* the number of nodes of an output layer.
Sizes(b, nodes) == <<b.input_nodes>> \o b.hidden_layer_nodes \o <<nodes>>

\* Two sequences of layers with the same shapes of weights and bias.
SameLayerShapes(a, b) ==
    /\ Len(a) = Len(b)
    /\ \A j \in 1..Len(a) : LayerShape(a[j], InputNodes(b[j]), OutputNodes(b[j]))

\* C22: add_output_layer(nodes) on a builder with input_nodes n0 and hidden
\* layers h1, ..., hk never returns EmptyNetwork, and the network it returns
\* has k + 1 layers, layer j with s[j] input nodes and s[j+1] output nodes for
\* s = [n0, h1, ..., hk, nodes]; in every network a builder made each layer
\* has as many output nodes as the next one has input nodes.
C22_BuilderLayers ==
    /\ call.op = "add_output_layer"
       => LET b == call.builder[1]
              s == Sizes(b, call.nodes)
          IN  /\ res # Err("EmptyNetwork")
              /\ res.tag = "Ok"
                 => /\ Len(res.val.layers) = Len(b.hidden_layer_nodes) + 1
                    /\ \A j \in 1..Len(res.val.layers) :
                          LayerShape(res.val.layers[j], s[j], s[j + 1])
                    /\ network = Some(res.val)
    /\ network # NoNetwork
       => /\ network[1].layers # <<>>
          /\ Mismatches(network[1].layers) = {}

\* C22 witness: add_output_layer(2) on a builder with 2 input nodes and the
\* hidden layers 3 and 1 has returned a network of three layers.
C22_Witness ==
    /\ call.op = "add_output_layer"
    /\ call.builder = Some(NeuralNetworkBuilder(2, <<3, 1>>))
    /\ call.nodes = 2
    /\ res.tag = "Ok"
    /\ Len(res.val.layers) = 3
    /\ LayerShape(res.val.layers[2], 3, 1)

\* C23: on a network a builder with input_nodes n0 made, predict on an n0 x 1
\* matrix succeeds and returns a matrix of shape out x 1, out being the output
\* nodes of the last layer; every layer is evaluated, layer j being passed a
\* matrix of shape s[j] x 1.
C23_BuilderPredict ==
    (/\ call.op = "NeuralNetwork::predict"
     /\ builder # NoBuilder
     /\ call.input.columns = 1
     /\ call.input.rows = builder[1].input_nodes)
    => LET out == OutputNodes(call.layers[Len(call.layers)])
           s   == Sizes(builder[1], out)
       IN  /\ network = Some(NeuralNetwork(call.layers))
           /\ res.tag = "Ok"
           /\ res.val.rows = out
           /\ res.val.columns = 1
           /\ Len(res.val.data) = out
           /\ Len(call.passed) = Len(call.layers)
           /\ \A j \in 1..Len(call.passed) :
                 /\ call.passed[j].rows = s[j]
                 /\ call.passed[j].columns = 1

\* C23 witness: the network of a builder with the sizes 2, 3, 1, 2 was handed
\* the column [0, 1] and has returned a column of two elements.
C23_Witness ==
    /\ call.op = "NeuralNetwork::predict"
    /\ builder = Some(NeuralNetworkBuilder(2, <<3, 1>>))
    /\ call.input = Matrix(2, 1, <<0, 1>>)
    /\ Len(call.passed) = 3
    /\ call.passed[2].rows = 3
    /\ call.passed[3].rows = 1
    /\ res.tag = "Ok"
    /\ res.val.rows = 2

\* C24: after get_unchecked with a row or a column outside of the matrix
\* (row >= rows or column >= columns) the call has panicked; it has not
\* returned an element.
C24_GetUncheckedPanics ==
    (/\ call.op = "get_unchecked"
     /\ (call.row >= call.self.rows \/ call.column >= call.self.columns))
    => res.tag = "Panic"

\* The operations that read elements through the unchecked accessors.
UncheckedReaders ==
    {"transpose", "matrix_mul", "map", "map_ref_mut", "element_wise",
     "scalar_binary", "scalar_assign", "unary", "fmt"}

\* The calls of the closure made so far are the calls for the flat indices
\* 0, 1, ... in this order, each with the original element at its index and
\* with the row index / columns and the column index % columns, both within
\* the matrix; the elements at these indices are the results of the calls,
\* the others are the original ones; rows and columns are unchanged.
CallsInOrder(self, before, mapping, calls, data, oc) ==
    /\ Len(calls) <= self.rows * self.columns
    /\ Len(data) = Len(before)
    /\ \A k \in 0..(Len(calls) - 1) :
          /\ calls[k + 1].index = k
          /\ calls[k + 1].element = before[k + 1]
          /\ calls[k + 1].row = k \div self.columns
          /\ calls[k + 1].column = k % self.columns
          /\ calls[k + 1].row < self.rows
          /\ calls[k + 1].column < self.columns
          /\ V(data[k + 1]) = apply_mapping(UserClosure(mapping), before[k + 1],
                                            k \div self.columns, k % self.columns, oc)
    /\ \A k \in Len(calls)..(Len(before) - 1) : data[k + 1] = before[k + 1]

\* While map or map_ref_mut runs, and when it has returned, the calls made
\* are in order; when it has returned there are rows * columns of them.
MapInvariant ==
    /\ frame # NoFrame
       => /\ CallsInOrder(call.self, frame[1].original, frame[1].mapping,
                          frame[1].calls, frame[1].self.data, frame[1].oc)
          /\ frame[1].original = call.self.data
          /\ frame[1].self.rows = call.self.rows
          /\ frame[1].self.columns = call.self.columns
    /\ (call.op \in MapMethods /\ res = OkUnit)
       => /\ Len(call.passed) = call.self.rows * call.self.columns
          /\ \E oc \in BOOLEAN :
                CallsInOrder(call.self, call.self.data, call.operator,
                             call.passed, m.data, oc)
          /\ m.rows = call.self.rows
          /\ m.columns = call.self.columns

\* A step of a running call makes one more call of the closure, for the flat
\* index following the one of the call before.
MapStep ==
    (frame # NoFrame /\ frame' # NoFrame /\ frame' # frame)
    => /\ Len(frame'[1].calls) = Len(frame[1].calls) + 1
       /\ frame'[1].calls[Len(frame'[1].calls)].index = Len(frame[1].calls)
       /\ SubSeq(frame'[1].calls, 1, Len(frame[1].calls)) = frame[1].calls

\* C25: map and map_ref_mut on an r x c matrix call the mapping exactly r * c
\* times; the k-th call (from 0) is for the flat index k, receives the
\* original element at k and the coordinates (k / c, k % c), which are within
\* the matrix, and its result replaces the element at k; from one call to the
\* next the index grows by exactly 1; rows and columns do not change.
C25_MapRowMajor == []MapInvariant /\ [][MapStep]_vars

\* C25 witness: map with |_, row, column| row - column has returned on the
\* 2x3 matrix [0, 1, 2, 3, 4, 5] after six calls, the fifth for row 1 and
\* column 1 with the element 4.
C25_Witness ==
    /\ call.op = "map"
    /\ call.operator = "coord"
    /\ call.self = Matrix(2, 3, Ramp(0, 6))
    /\ res = OkUnit
    /\ Len(call.passed) = 6
    /\ call.passed[5] = [element |-> 4, row |-> 1, column |-> 1, index |-> 4]
    /\ m = Matrix(2, 3, <<0, 0 - 1, 0 - 2, 1, 0, 0 - 1>>)

C27_MismatchedLayers ==
    /\ (call.op = "NeuralNetwork::new" /\ Mismatches(call.layers) # {})
       => res = Ok(NeuralNetwork(call.layers))
    /\ (call.op = "NeuralNetwork::predict" /\ Mismatches(call.layers) # {})
       => /\ res = Err("DimensionMismatch")
          /\ LET first == CHOOSE j \in Mismatches(call.layers) :
                              \A k \in Mismatches(call.layers) : j <= k
             IN  Len(call.passed) =
                    IF call.input.columns # 1 THEN 0
                    ELSE IF call.input.rows # InputNodes(call.layers[1]) THEN 1
                    ELSE first + 1

\* C27 witness: a network of three layers with 2 -> 3, 2 -> 1 and 1 -> 1 nodes
\* was handed a column of two elements: the first two layers were evaluated,
\* the third one was not.
C27_Witness ==
    /\ call.op = "NeuralNetwork::predict"
    /\ Len(call.layers) = 3
    /\ LayerShape(call.layers[1], 2, 3)
    /\ LayerShape(call.layers[2], 2, 1)
    /\ LayerShape(call.layers[3], 1, 1)
    /\ call.input.rows = 2
    /\ call.input.columns = 1
    /\ res = Err("DimensionMismatch")
    /\ Len(call.passed) = 2

\* After add_output_layer the builder is the one it was called on; after
\* add_hidden_layer it has the same input_nodes and one more hidden layer, the
\* new one at the end.
BuilderFrame ==
    /\ call.op = "add_output_layer" => builder = call.builder
    /\ call.op = "add_hidden_layer"
       => /\ builder[1].input_nodes = call.builder[1].input_nodes
          /\ builder[1].hidden_layer_nodes =
                Append(call.builder[1].hidden_layer_nodes, call.nodes)

\* A call of add_output_layer that follows one with the same number of
\* nodes repeats its outcome: the same error, or layers of the same shapes.
RepeatedOutputLayer ==
    (/\ call.op = "add_output_layer"
     /\ call'.op = "add_output_layer"
     /\ call'.nodes = call.nodes)
    => /\ call'.builder = call.builder
       /\ res'.tag = res.tag
       /\ res.tag = "Err" => res' = res
       /\ res.tag = "Ok" => SameLayerShapes(res'.val.layers, res.val.layers)

\* C28: add_output_layer leaves input_nodes and the hidden layers of the
\* builder as they were, whether it returns a network or DimensionsTooLarge,
\* and a second add_output_layer with the same number of nodes returns
\* layers of the same shapes (or the same error); add_hidden_layer changes
\* the builder only by appending one entry to the hidden layers.
C28_BuilderUnchanged == []BuilderFrame /\ [][RepeatedOutputLayer]_vars

\* C28 witness: add_output_layer(usize::MAX) on a builder with 2 input nodes
\* and the hidden layers 1 and 3 has returned DimensionsTooLarge.
C28_Witness ==
    /\ call.op = "add_output_layer"
    /\ call.builder = Some(NeuralNetworkBuilder(2, <<1, 3>>))
    /\ call.nodes = UsizeMax
    /\ res = Err("DimensionsTooLarge")
    /\ builder = Some(NeuralNetworkBuilder(2, <<1, 3>>))

\* C29: matrix_mul with self.columns # other.rows returns DimensionMismatch,
\* also when self.rows * other.columns exceeds usize::MAX, and it returns
\* DimensionsTooLarge only when self.columns = other.rows.
C29_MismatchBeforeSize ==
    call.op = "matrix_mul"
    => /\ get_columns(call.self) # get_rows(call.other)
          => res = Err("DimensionMismatch")
       /\ res = Err("DimensionsTooLarge")
          => /\ get_columns(call.self) = get_rows(call.other)
             /\ call.self.rows * call.other.columns > UsizeMax

\* C29 witness: a usize::MAX x 1 matrix was multiplied with a 2x2 matrix: the
\* inner dimensions differ and the size of the product exceeds usize::MAX.
C29_Witness ==
    /\ call.op = "matrix_mul"
    /\ call.self.rows = UsizeMax
    /\ call.self.columns = 1
    /\ call.other.rows = 2
    /\ call.other.columns = 2
    /\ call.self.rows * call.other.columns > UsizeMax
    /\ res = Err("DimensionMismatch")

====
